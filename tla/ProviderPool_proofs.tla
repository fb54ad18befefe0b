------------------------- MODULE ProviderPool_proofs -------------------------
(***************************************************************************)
(* Proofs about the provider WebSocket pool, for any number of requests    *)
(* and connections, any limit and any handshake keys.                      *)
(***************************************************************************)
EXTENDS ProviderPool, FiniteSetTheorems, TLAPS

PcSet == {"acquire", "parked", "dialing", "write", "prefix", "prefixBlocked", "body", "bodyBlocked",
          "failing", "closing", "done"}
ReaderSet == {"none", "top", "reading", "got", "reserve", "settle", "wait", "exit"}

TypeOK ==
  /\ closed \in BOOLEAN /\ entries \subseteq Conns /\ nextConn \in Nat \ {0}
  /\ busy \in [Conns -> BOOLEAN] /\ holder \in [Conns -> Holders]
  /\ reader \in [Conns -> ReaderSet] /\ seen \in [Conns -> Holders]
  /\ pc \in [Requests -> PcSet] /\ conn \in [Requests -> Conns \cup {None}]
  /\ after \in [Requests -> {"none", "armed", "started", "stopped"}]

-----------------------------------------------------------------------------
(* Leases.                                                                 *)

Dialing(r) == pc[r] = "dialing"
Owns(r) == Dialing(r) \/ Leasing(r)
Engaged(r) == Owns(r) \/ pc[r] \in {"failing", "closing"}

(* ExclusiveLease is not inductive: a dial in progress already owns its    *)
(* connection, which is busy but leased to nobody, and a connection that   *)
(* will be created next belongs to nobody.                                 *)
LeaseInv ==
  /\ \A c \in entries : c < nextConn
  /\ \A r \in Requests : Engaged(r) => conn[r] \in Conns /\ conn[r] < nextConn
  /\ \A r, s \in Requests : r # s /\ Owns(r) /\ Owns(s) => conn[r] # conn[s]
  /\ \A r \in Requests : Dialing(r) => holder[conn[r]] = None /\ (Alive(conn[r]) => busy[conn[r]])
  /\ \A r \in Requests : Leasing(r) /\ Alive(conn[r]) => holder[conn[r]] = r /\ busy[conn[r]]
  /\ \A c \in Conns : c >= nextConn => holder[c] = None
  /\ Cardinality(entries) <= Limit

\* A wakeup only makes parked requests look again.
LEMMA WokenFacts ==
  ASSUME NEW p \in [Requests -> PcSet], NEW S
  PROVE  /\ Woken(p) \in [Requests -> PcSet] /\ WokenBy(S, p) \in [Requests -> PcSet]
         /\ \A r \in Requests : Woken(p)[r] = IF p[r] = "parked" THEN "acquire" ELSE p[r]
         /\ \A r \in Requests : p[r] # "parked" => WokenBy(S, p)[r] = p[r]
         /\ \A r \in Requests : p[r] = "parked" => WokenBy(S, p)[r] \in {"parked", "acquire"}
  BY DEF Woken, WokenBy, PcSet

\* A request moves on and the step wakes the parked ones.
LEMMA WokenMove ==
  ASSUME pc \in [Requests -> PcSet], NEW r \in Requests, NEW next \in PcSet \ {"parked"}, NEW S,
         pc' = WokenBy(S, Put(pc, r, next)) \/ pc' = Woken(Put(pc, r, next)) \/ pc' = Put(pc, r, next)
  PROVE  /\ pc' \in [Requests -> PcSet] /\ pc'[r] = next
         /\ \A s \in Requests \ {r} : pc'[s] = pc[s] \/ (pc[s] = "parked" /\ pc'[s] = "acquire")
<1> DEFINE p == Put(pc, r, next)
<1>1. p \in [Requests -> PcSet] /\ p[r] = next /\ \A s \in Requests \ {r} : p[s] = pc[s]
  BY DEF Put
<1>2. pc' = WokenBy(S, p) \/ pc' = Woken(p) \/ pc' = p
  OBVIOUS
<1> HIDE DEF p
<1> QED
  BY <1>1, <1>2, WokenFacts

\* The pool holds finitely many connections.
LEMMA EntriesFinite ==
  ASSUME entries \subseteq Conns, NEW S \in SUBSET entries
  PROVE  /\ IsFiniteSet(entries) /\ IsFiniteSet(S)
         /\ Cardinality(entries) \in Nat /\ Cardinality(S) \in Nat /\ Cardinality(S) <= Cardinality(entries)
<1>1. IsFiniteSet(1..MaxConns)
  BY PoolAssumption, FS_Interval
<1>2. IsFiniteSet(entries)
  BY <1>1, FS_Subset DEF Conns
<1> QED
  BY <1>2, FS_Subset, FS_CardinalityType

\* A step that hands out no connection keeps the leases apart.
LEMMA FrameStep ==
  ASSUME TypeOK, LeaseInv, entries' \subseteq entries,
         UNCHANGED <<nextConn, busy, holder, conn>>,
         \A r \in Requests : /\ (pc[r] # "dialing" => pc'[r] # "dialing")
                             /\ (Leasing(r)' => Leasing(r))
                             /\ (Engaged(r)' => Engaged(r))
  PROVE  LeaseInv'
<1>1. Cardinality(entries') <= Limit
  <2>1. Cardinality(entries') \in Nat /\ Cardinality(entries) \in Nat /\ Cardinality(entries') <= Cardinality(entries)
    BY EntriesFinite DEF TypeOK
  <2> QED
    BY <2>1, PoolAssumption DEF LeaseInv
<1>2. \A r \in Requests : Owns(r)' => Owns(r)
  BY DEF Owns, Dialing
<1> QED
  BY <1>1, <1>2 DEF LeaseInv, Alive, Dialing

-----------------------------------------------------------------------------
(* Types.                                                                  *)

\* Releasing a connection discards it at most.
LEMMA ReleaseFacts ==
  ASSUME TypeOK, NEW r \in Requests, NEW next \in PcSet \ {"parked"}, ReleaseDiscard(r, next)
  PROVE  /\ pc' \in [Requests -> PcSet] /\ pc'[r] = next
         /\ \A s \in Requests \ {r} : pc'[s] = pc[s] \/ (pc[s] = "parked" /\ pc'[s] = "acquire")
         /\ entries' \subseteq entries
         /\ \A c \in entries \ entries' : c = conn[r] /\ holder[c] = r
         /\ UNCHANGED <<closed, nextConn, expired, key, busy, holder, fired>>
<1>1. \E S : pc' = WokenBy(S, Put(pc, r, next))
  BY DEF ReleaseDiscard
<1>2. /\ pc' \in [Requests -> PcSet] /\ pc'[r] = next
      /\ \A s \in Requests \ {r} : pc'[s] = pc[s] \/ (pc[s] = "parked" /\ pc'[s] = "acquire")
  BY <1>1, WokenMove DEF TypeOK
<1> QED
  BY <1>2 DEF ReleaseDiscard, Discard, Holds

\* Every step of the pool keeps the types of its state.
LEMMA TypeStep == TypeOK /\ [Next]_vars => TypeOK'
<1> SUFFICES ASSUME TypeOK, [Next]_vars PROVE TypeOK'
  OBVIOUS
<1> USE DEF TypeOK, Put
<1>1. ASSUME NEW r \in Requests, RequestStep(r) PROVE TypeOK'
  <2>1. CASE AcquireReuse(r)
    <3>1. PICK c \in Match(r), S \in SUBSET Stale :
            /\ entries' = entries \ S /\ busy' = Put(busy, c, TRUE) /\ holder' = Put(holder, c, r)
            /\ conn' = Put(conn, r, c) /\ pc' = WokenBy(S, Put(pc, r, "write"))
      BY <2>1 DEF AcquireReuse
    <3>2. c \in Conns /\ Put(pc, r, "write") \in [Requests -> PcSet]
      BY DEF Match, PcSet
    <3> QED
      BY <2>1, <3>1, <3>2, WokenFacts DEF AcquireReuse, Holders, readerVars, bodyVars
  <2>2. CASE AcquireDial(r)
    <3>1. Put(pc, r, "dialing") \in [Requests -> PcSet]
      BY DEF PcSet
    <3>2. pc' \in [Requests -> PcSet]
      BY <2>2, <3>1, WokenFacts DEF AcquireDial
    <3>3. nextConn \in Conns /\ nextConn + 1 \in Nat \ {0}
      BY <2>2, PoolAssumption DEF AcquireDial, Conns
    <3>4. /\ entries' \subseteq entries \cup {nextConn} /\ busy' = Put(busy, nextConn, TRUE)
          /\ conn' = Put(conn, r, nextConn) /\ nextConn' = nextConn + 1
          /\ UNCHANGED <<closed, holder, reader, seen, after>>
      BY <2>2 DEF AcquireDial, readerVars
    <3> QED
      BY <3>2, <3>3, <3>4
  <2>3. CASE AcquirePark(r)
    BY <2>3 DEF AcquirePark, poolVars, readerVars, bodyVars, PcSet
  <2>4. CASE AcquireAbort(r)
    BY <2>4 DEF AcquireAbort, poolVars, readerVars, bodyVars, PcSet
  <2>5. CASE DialFail(r)
    <3>1. Put(pc, r, "done") \in [Requests -> PcSet]
      BY DEF PcSet
    <3>2. pc' \in [Requests -> PcSet]
      BY <2>5, <3>1, WokenFacts DEF DialFail
    <3> QED
      BY <2>5, <3>2 DEF DialFail, readerVars, bodyVars, Discard
  <2>6. CASE DialAfterClose(r)
    BY <2>6 DEF DialAfterClose, poolVars, readerVars, bodyVars, PcSet
  <2>7. CASE DialDone(r)
    BY <2>7 DEF DialDone, bodyVars, PcSet, ReaderSet, Holders
  <2>8. CASE WriteCreate(r)
    BY <2>8 DEF WriteCreate, poolVars, readerVars, bodyVars, PcSet
  <2>9. ASSUME Fail(r), UNCHANGED <<readerVars, conn, after>> PROVE TypeOK'
    BY <2>9, ReleaseFacts DEF Fail, readerVars, PcSet
  <2>10. CASE WriteFail(r)
    BY <2>9, <2>10 DEF WriteFail
  <2>11. CASE PrefixBlock(r)
    BY <2>11 DEF PrefixBlock, poolVars, readerVars, bodyVars, PcSet
  <2>12. CASE PrefixFail(r)
    BY <2>9, <2>12 DEF PrefixFail
  <2>13. CASE PrefixTake(r)
    <3>1. CASE Fail(r) /\ UNCHANGED <<readerVars, conn, after>>
      BY <2>9, <3>1
    <3>2. CASE /\ pc' \in {Put(pc, r, "prefix"), Put(pc, r, "body")}
               /\ after' = after \/ after' \in {Put(after, r, "started"), Put(after, r, "armed")}
               /\ UNCHANGED <<poolVars, readerVars, conn>>
      BY <3>2 DEF poolVars, readerVars, PcSet
    <3> QED
      BY <2>13, <3>1, <3>2 DEF PrefixTake
  <2>14. CASE ReadPrefetched(r)
    BY <2>14 DEF ReadPrefetched, poolVars, readerVars
  <2>15. CASE ReadQueued(r)
    BY <2>15 DEF ReadQueued, poolVars, readerVars, PcSet
  <2>16. CASE ReadBlock(r)
    BY <2>16 DEF ReadBlock, poolVars, readerVars, PcSet
  <2>17. CASE Drain(r)
    BY <2>17 DEF Drain, poolVars, readerVars
  <2>18. ASSUME NEW reason, ReadAbort(r, reason) PROVE TypeOK'
    <3>1. pc' \in [Requests -> PcSet] /\ entries' \subseteq entries /\ UNCHANGED <<closed, nextConn, busy, holder>>
      BY <2>18, ReleaseFacts DEF ReadAbort, PcSet
    <3> QED
      BY <2>18, <3>1 DEF ReadAbort, readerVars
  <2>19. CASE CloseBegin(r)
    BY <2>19 DEF CloseBegin, Cancelled, poolVars, readerVars
  <2>20. CASE CloseRelease(r)
    <3>1. after' \in [Requests -> {"none", "armed", "started", "stopped"}] /\ UNCHANGED <<readerVars, conn>>
      BY <2>20 DEF CloseRelease
    <3>2. CASE Returns(r)
      <4>1. Put(pc, r, "done") \in [Requests -> PcSet]
        BY DEF PcSet
      <4>2. pc' \in [Requests -> PcSet]
        <5>1. pc' = Woken(Put(pc, r, "done"))
          BY <2>20, <3>2 DEF CloseRelease
        <5> QED
          BY <4>1, <5>1, WokenFacts
      <4>3. /\ busy' = Put(busy, conn[r], FALSE) /\ holder' = Put(holder, conn[r], None)
            /\ UNCHANGED <<closed, entries, nextConn>>
        BY <2>20, <3>2 DEF CloseRelease
      <4> QED
        BY <3>1, <4>2, <4>3 DEF Holders, readerVars
    <3>3. CASE ~Returns(r)
      <4>1. pc' \in [Requests -> PcSet] /\ entries' \subseteq entries /\ UNCHANGED <<closed, nextConn, busy, holder>>
        BY <2>20, <3>3, ReleaseFacts DEF CloseRelease, PcSet
      <4> QED
        BY <3>1, <4>1 DEF readerVars
    <3> QED
      BY <3>2, <3>3
  <2>21. CASE FinishCapture(r)
    BY <2>21 DEF FinishCapture, poolVars, readerVars, PcSet
  <2>22. CASE Cancel(r)
    BY <2>22 DEF Cancel, Cancelled, poolVars, readerVars
  <2>23. CASE CancelRelease(r)
    <3>1. PICK S : pc' = WokenBy(S, Put(pc, r, pc[r]))
      BY <2>23 DEF CancelRelease, ReleaseDiscard
    <3>2. Put(pc, r, pc[r]) \in [Requests -> PcSet]
      OBVIOUS
    <3>3. pc' \in [Requests -> PcSet]
      BY <3>1, <3>2, WokenFacts
    <3> QED
      BY <2>23, <3>3 DEF CancelRelease, ReleaseDiscard, Discard, readerVars
  <2> QED
    BY <1>1, <2>1, <2>2, <2>3, <2>4, <2>5, <2>6, <2>7, <2>8, <2>10, <2>11, <2>12, <2>13, <2>14, <2>15,
       <2>16, <2>17, <2>18, <2>19, <2>20, <2>21, <2>22, <2>23 DEF RequestStep
<1>2. ASSUME NEW c \in Conns, ReceiverStep(c) PROVE TypeOK'
  <2>1. CASE Capture(c)
    BY <2>1 DEF Capture, poolVars, reqVars, ReaderSet
  <2>2. CASE ReadMessage(c) \/ ReadStray(c) \/ ReadFail(c)
    BY <2>2 DEF ReadMessage, ReadStray, ReadFail, poolVars, reqVars, ReaderSet
  <2>3. CASE Admit(c)
    <3>1. LeaseFor(c) \in Holders
      BY DEF LeaseFor
    <3>2. seen' \in [Conns -> Holders] /\ reader' \in [Conns -> ReaderSet]
      BY <2>3, <3>1 DEF Admit, ReceiverExits, Enqueue, AfterDelivery, ReaderSet, Holders
    <3>3. entries' \subseteq entries /\ (pc' = pc \/ pc' = WokenBy({c}, pc))
      BY <2>3 DEF Admit, Discard
    <3>4. pc' \in [Requests -> PcSet]
      BY <3>3, WokenFacts
    <3>5. UNCHANGED <<closed, nextConn, busy, holder, conn, after>>
      BY <2>3 DEF Admit
    <3> QED
      BY <3>2, <3>3, <3>4, <3>5
  <2>4. CASE DeliverReserved(c) \/ SettleReserved(c) \/ AwaitRelease(c)
    BY <2>4 DEF DeliverReserved, SettleReserved, AwaitRelease, ReceiverExits, AfterDelivery, poolVars, reqVars,
       ReaderSet, Holders
  <2> QED
    BY <1>2, <2>1, <2>2, <2>3, <2>4 DEF ReceiverStep
<1>3. ASSUME NEW c \in Conns, IdleTimerFires(c) \/ IdleTimerRuns(c) PROVE TypeOK'
  <2>1. entries' \subseteq entries /\ (pc' = pc \/ pc' = WokenBy(TimerVictims(c), pc))
    BY <1>3 DEF IdleTimerFires, IdleTimerRuns, Discard, reqVars
  <2>2. pc' \in [Requests -> PcSet]
    BY <2>1, WokenFacts
  <2>3. UNCHANGED <<closed, nextConn, busy, holder, conn, after, reader, seen>>
    BY <1>3 DEF IdleTimerFires, IdleTimerRuns, readerVars, reqVars
  <2> QED
    BY <2>1, <2>2, <2>3
<1>4. CASE Age
  BY <1>4 DEF Age, readerVars, reqVars
<1>5. CASE ClosePool
  BY <1>5, WokenFacts DEF ClosePool, Discard, readerVars
<1>6. CASE UNCHANGED vars
  BY <1>6 DEF vars, poolVars, readerVars, reqVars
<1> QED
  BY <1>1, <1>2, <1>3, <1>4, <1>5, <1>6 DEF Next

-----------------------------------------------------------------------------
(* Leases are exclusive.                                                   *)

\* One request moves on without a new connection; parked ones may wake up.
Moves(r, from, to) ==
  /\ pc[r] \in from /\ pc'[r] \in to
  /\ \A s \in Requests \ {r} : pc'[s] = pc[s] \/ (pc[s] = "parked" /\ pc'[s] = "acquire")

LeasingPcs == {"write", "prefix", "prefixBlocked", "body", "bodyBlocked"}

\* A step that leaves the leases alone, moves one request between program points that agree on
\* holding a lease, and at most drops entries, keeps LeaseInv.
LEMMA MoveStep ==
  ASSUME TypeOK, LeaseInv, entries' \subseteq entries, UNCHANGED <<nextConn, busy, holder, conn>>,
         NEW r \in Requests,
         \/ Moves(r, LeasingPcs, LeasingPcs \cup {"failing", "closing", "done"})
         \/ Moves(r, {"acquire", "parked", "dialing", "failing", "closing"}, {"acquire", "parked", "done"})
         \/ Moves(r, {pc[r]}, {pc[r]})
  PROVE  LeaseInv'
<1>1. \A s \in Requests : /\ (pc[s] # "dialing" => pc'[s] # "dialing")
                          /\ (Leasing(s)' => Leasing(s))
                          /\ (Engaged(s)' => Engaged(s))
  BY DEF Moves, LeasingPcs, Leasing, Engaged, Owns, Dialing
<1> QED
  BY <1>1, FrameStep

\* Acquiring an idle matching connection (acquire in the pool) makes the request its only
\* holder.
LEMMA ReuseStep ==
  ASSUME TypeOK, LeaseInv, NEW r \in Requests, AcquireReuse(r)
  PROVE  LeaseInv'
<1>1. PICK c \in Match(r), S \in SUBSET Stale :
        /\ entries' = entries \ S /\ busy' = Put(busy, c, TRUE) /\ holder' = Put(holder, c, r)
        /\ conn' = Put(conn, r, c) /\ pc' = WokenBy(S, Put(pc, r, "write"))
  BY DEF AcquireReuse
<1>2. pc[r] = "acquire" /\ nextConn' = nextConn
  BY DEF AcquireReuse
<1>3. c \in entries /\ c \in Conns /\ ~busy[c] /\ c < nextConn
  BY DEF Match, Idle, TypeOK, LeaseInv
<1>4. "write" \in PcSet \ {"parked"}
  BY DEF PcSet
<1>5. /\ pc'[r] = "write"
      /\ \A s \in Requests \ {r} : pc'[s] = pc[s] \/ (pc[s] = "parked" /\ pc'[s] = "acquire")
  BY <1>1, <1>4, WokenMove DEF TypeOK
<1>6. \A s \in Requests \ {r} : Owns(s) => conn[s] # c
  BY <1>3 DEF LeaseInv, Owns, Alive
<1>7. /\ conn'[r] = c /\ \A s \in Requests \ {r} : conn'[s] = conn[s]
  BY <1>1 DEF TypeOK, Put
<1>8. /\ holder'[c] = r /\ busy'[c]
      /\ \A d \in Conns \ {c} : holder'[d] = holder[d] /\ busy'[d] = busy[d]
  BY <1>1, <1>3 DEF TypeOK, Put
<1>9. \A s \in Requests \ {r} : /\ (Owns(s)' => Owns(s)) /\ (Engaged(s)' => Engaged(s))
                                /\ (Leasing(s)' => Leasing(s)) /\ (Dialing(s)' => Dialing(s))
  BY <1>5 DEF Owns, Engaged, Leasing, Dialing
<1>10. Cardinality(entries') <= Limit
  <2>1. Cardinality(entries') \in Nat /\ Cardinality(entries) \in Nat /\ Cardinality(entries') <= Cardinality(entries)
    BY <1>1, EntriesFinite DEF TypeOK
  <2> QED
    BY <2>1, PoolAssumption DEF LeaseInv
<1>11. \A d \in entries' : d < nextConn'
  BY <1>1, <1>2 DEF LeaseInv
<1>12. \A s \in Requests : Engaged(s)' => conn'[s] \in Conns /\ conn'[s] < nextConn'
  BY <1>2, <1>3, <1>7, <1>9 DEF LeaseInv
<1>13. \A s, q \in Requests : s # q /\ Owns(s)' /\ Owns(q)' => conn'[s] # conn'[q]
  BY <1>6, <1>7, <1>9 DEF LeaseInv
<1>14. \A s \in Requests : Dialing(s)' => holder'[conn'[s]] = None /\ (Alive(conn[s])' => busy'[conn'[s]])
  <2> SUFFICES ASSUME NEW s \in Requests, Dialing(s)'
               PROVE  holder'[conn'[s]] = None /\ (conn'[s] \in entries' => busy'[conn'[s]])
    BY DEF Alive
  <2>1. s # r /\ Dialing(s) /\ Owns(s) /\ Engaged(s)
    BY <1>5, <1>9 DEF Dialing, Owns, Engaged
  <2>2. /\ conn[s] \in Conns \ {c} /\ holder[conn[s]] = None
        /\ conn[s] \in entries => busy[conn[s]]
    BY <1>6, <2>1 DEF LeaseInv, Alive
  <2> QED
    BY <1>1, <1>7, <1>8, <2>1, <2>2
<1>15. \A s \in Requests : Leasing(s)' /\ Alive(conn[s])' => holder'[conn'[s]] = s /\ busy'[conn'[s]]
  <2> SUFFICES ASSUME NEW s \in Requests, Leasing(s)', conn'[s] \in entries'
               PROVE  holder'[conn'[s]] = s /\ busy'[conn'[s]]
    BY DEF Alive
  <2>1. CASE s = r
    BY <1>7, <1>8, <2>1
  <2>2. CASE s # r
    <3>1. Leasing(s) /\ Engaged(s) /\ conn[s] \in Conns \ {c} /\ conn[s] \in entries
      BY <1>1, <1>6, <1>7, <1>9, <2>2 DEF LeaseInv, Owns, Engaged
    <3>2. holder[conn[s]] = s /\ busy[conn[s]]
      BY <3>1 DEF LeaseInv, Alive
    <3> QED
      BY <1>7, <1>8, <2>2, <3>1, <3>2
  <2> QED
    BY <2>1, <2>2
<1>16. \A d \in Conns : d >= nextConn' => holder'[d] = None
  BY <1>2, <1>3, <1>8 DEF LeaseInv, Conns, TypeOK
<1> QED
  BY <1>10, <1>11, <1>12, <1>13, <1>14, <1>15, <1>16 DEF LeaseInv

\* Reserving a fresh entry before the dial keeps LeaseInv: its number was never used.
LEMMA DialStep ==
  ASSUME TypeOK, LeaseInv, NEW r \in Requests, AcquireDial(r)
  PROVE  LeaseInv'
<1> DEFINE S == Stale \cup Evicted
           c == nextConn
<1>1. /\ entries' = (entries \ S) \cup {c} /\ busy' = Put(busy, c, TRUE) /\ UNCHANGED holder
      /\ conn' = Put(conn, r, c) /\ pc' = WokenBy(S, Put(pc, r, "dialing"))
      /\ pc[r] = "acquire" /\ nextConn' = c + 1 /\ HasRoom(S)
  BY DEF AcquireDial
<1>2. c \in Conns /\ c \in Nat
  BY PoolAssumption DEF AcquireDial, Conns, TypeOK
<1>3. \A d \in Conns : d \in Nat
  BY PoolAssumption DEF Conns
<1> HIDE DEF S, c
<1>4. "dialing" \in PcSet \ {"parked"}
  BY DEF PcSet
<1>5. /\ pc'[r] = "dialing"
      /\ \A s \in Requests \ {r} : pc'[s] = pc[s] \/ (pc[s] = "parked" /\ pc'[s] = "acquire")
  BY <1>1, <1>4, WokenMove DEF TypeOK
<1>6. \A s \in Requests \ {r} : Engaged(s) => conn[s] \in Conns /\ conn[s] < c /\ conn[s] # c
  BY <1>2, <1>3 DEF LeaseInv, c
<1>7. /\ conn'[r] = c /\ \A s \in Requests \ {r} : conn'[s] = conn[s]
  BY <1>1, <1>2 DEF TypeOK, Put
<1>8. /\ holder[c] = None /\ busy'[c] /\ \A d \in Conns \ {c} : busy'[d] = busy[d]
  BY <1>1, <1>2 DEF TypeOK, Put, LeaseInv, c
<1>9. \A s \in Requests \ {r} : /\ (Owns(s)' => Owns(s)) /\ (Engaged(s)' => Engaged(s))
                                /\ (Leasing(s)' => Leasing(s)) /\ (Dialing(s)' => Dialing(s))
                                /\ (Owns(s) => Engaged(s))
  BY <1>5 DEF Owns, Engaged, Leasing, Dialing
<1>10. Cardinality(entries') <= Limit
  <2>1. /\ IsFiniteSet(entries \ S) /\ Cardinality(entries \ S) \in Nat
        /\ Cardinality(entries \ S) < Limit
    BY <1>1, EntriesFinite DEF TypeOK, HasRoom
  <2>2. c \notin entries \ S
    BY <1>2, <1>3 DEF LeaseInv, c, TypeOK
  <2>3. Cardinality(entries') = Cardinality(entries \ S) + 1
    BY <1>1, <2>1, <2>2, FS_AddElement
  <2> QED
    BY <2>1, <2>3, PoolAssumption
<1>11. \A d \in entries' : d < nextConn'
  <2>1. nextConn' = c + 1 /\ \A d \in entries : d \in Nat /\ d < c
    BY <1>1, <1>3 DEF LeaseInv, TypeOK, c
  <2> QED
    BY <1>1, <1>2, <2>1
<1>12. \A s \in Requests : Engaged(s)' => conn'[s] \in Conns /\ conn'[s] < nextConn'
  BY <1>1, <1>2, <1>3, <1>6, <1>7, <1>9
<1>13. \A s, q \in Requests : s # q /\ Owns(s)' /\ Owns(q)' => conn'[s] # conn'[q]
  BY <1>6, <1>7, <1>9 DEF LeaseInv
<1>14. \A s \in Requests : Dialing(s)' => holder'[conn'[s]] = None /\ (Alive(conn[s])' => busy'[conn'[s]])
  <2> SUFFICES ASSUME NEW s \in Requests, Dialing(s)'
               PROVE  holder'[conn'[s]] = None /\ (conn'[s] \in entries' => busy'[conn'[s]])
    BY DEF Alive
  <2>1. CASE s = r
    BY <1>1, <1>7, <1>8, <2>1
  <2>2. CASE s # r
    <3>1. Dialing(s) /\ conn[s] \in Conns \ {c}
      BY <1>6, <1>9, <2>2 DEF Owns
    <3>2. holder[conn[s]] = None /\ (conn[s] \in entries => busy[conn[s]])
      BY <3>1 DEF LeaseInv, Alive
    <3> QED
      BY <1>1, <1>7, <1>8, <2>2, <3>1, <3>2
  <2> QED
    BY <2>1, <2>2
<1>15. \A s \in Requests : Leasing(s)' /\ Alive(conn[s])' => holder'[conn'[s]] = s /\ busy'[conn'[s]]
  <2> SUFFICES ASSUME NEW s \in Requests, Leasing(s)', conn'[s] \in entries'
               PROVE  holder'[conn'[s]] = s /\ busy'[conn'[s]]
    BY DEF Alive
  <2>1. s # r
    BY <1>5 DEF Leasing
  <2> QED
    <3>1. Leasing(s) /\ conn[s] \in Conns \ {c} /\ conn[s] \in entries
      BY <1>1, <1>6, <1>7, <1>9, <2>1 DEF Owns
    <3>2. holder[conn[s]] = s /\ busy[conn[s]]
      BY <3>1 DEF LeaseInv, Alive
    <3> QED
      BY <1>1, <1>7, <1>8, <2>1, <3>1, <3>2
<1>16. \A d \in Conns : d >= nextConn' => holder'[d] = None
  BY <1>1, <1>2, <1>3 DEF LeaseInv, c
<1> QED
  BY <1>10, <1>11, <1>12, <1>13, <1>14, <1>15, <1>16 DEF LeaseInv

\* A finished dial turns the reservation into a lease of the dialling request.
LEMMA DialDoneStep ==
  ASSUME TypeOK, LeaseInv, NEW r \in Requests, DialDone(r)
  PROVE  LeaseInv'
<1> DEFINE c == conn[r]
<1>1. /\ pc[r] = "dialing" /\ holder' = Put(holder, c, r) /\ pc' = Put(pc, r, "write")
      /\ UNCHANGED <<entries, nextConn, busy, conn>>
  BY DEF DialDone
<1>2. c \in Conns /\ (c \in entries => busy[c]) /\ c < nextConn
  BY <1>1 DEF LeaseInv, Engaged, Owns, Dialing, Alive
<1> HIDE DEF c
<1>3. pc'[r] = "write" /\ \A s \in Requests \ {r} : pc'[s] = pc[s]
  BY <1>1 DEF TypeOK, Put
<1>4. holder'[c] = r /\ \A d \in Conns \ {c} : holder'[d] = holder[d]
  BY <1>1, <1>2 DEF TypeOK, Put
<1>5. \A s \in Requests : /\ Owns(s)' <=> Owns(s)
                          /\ Engaged(s)' <=> Engaged(s)
                          /\ Leasing(s)' <=> Leasing(s) \/ s = r
                          /\ Dialing(s)' <=> Dialing(s) /\ s # r
  BY <1>1, <1>3 DEF Owns, Engaged, Leasing, Dialing
<1>6. \A s \in Requests \ {r} : Owns(s) => conn[s] # c
  BY <1>1 DEF LeaseInv, Owns, Dialing, c
<1>7. ASSUME NEW s \in Requests, Dialing(s)'
      PROVE  holder'[conn[s]] = None /\ (conn[s] \in entries => busy[conn[s]])
  <2>1. s # r /\ Dialing(s) /\ conn[s] \in Conns \ {c}
    BY <1>5, <1>6, <1>7 DEF LeaseInv, Engaged, Owns
  <2> QED
    BY <1>4, <2>1 DEF LeaseInv, Alive
<1>8. ASSUME NEW s \in Requests, Leasing(s)', conn[s] \in entries
      PROVE  holder'[conn[s]] = s /\ busy[conn[s]]
  <2>1. CASE s = r
    BY <1>2, <1>4, <1>8, <2>1 DEF c
  <2>2. CASE s # r
    <3>1. Leasing(s) /\ conn[s] \in Conns \ {c}
      BY <1>5, <1>6, <1>8, <2>2 DEF LeaseInv, Engaged, Owns
    <3> QED
      BY <1>4, <1>8, <3>1 DEF LeaseInv, Alive
  <2> QED
    BY <2>1, <2>2
<1>9. \A d \in Conns : d >= nextConn => holder'[d] = None
  BY <1>2, <1>4 DEF LeaseInv, Conns, TypeOK
<1> QED
  BY <1>1, <1>5, <1>7, <1>8, <1>9 DEF LeaseInv, Alive

\* Returning a clean connection to the pool ends the only lease on it.
LEMMA ReturnStep ==
  ASSUME TypeOK, LeaseInv, NEW r \in Requests, CloseRelease(r), Returns(r)
  PROVE  LeaseInv'
<1> DEFINE c == conn[r]
<1>1. /\ pc[r] = "body" /\ holder' = Put(holder, c, None) /\ busy' = Put(busy, c, FALSE)
      /\ pc' = Woken(Put(pc, r, "done"))
      /\ UNCHANGED <<entries, nextConn, conn>>
  BY DEF CloseRelease
<1>2. c \in Conns /\ c \in entries
  BY DEF TypeOK, Returns, Holds, Alive
<1>3. "done" \in PcSet \ {"parked"}
  BY DEF PcSet
<1>4. /\ pc'[r] = "done"
      /\ \A s \in Requests \ {r} : pc'[s] = pc[s] \/ (pc[s] = "parked" /\ pc'[s] = "acquire")
  BY <1>1, <1>3, WokenMove DEF TypeOK
<1>5. \A s \in Requests \ {r} : Owns(s) => conn[s] # c
  BY <1>1 DEF LeaseInv, Owns, Leasing
<1> HIDE DEF c
<1>6. /\ holder'[c] = None /\ \A d \in Conns \ {c} : holder'[d] = holder[d] /\ busy'[d] = busy[d]
  BY <1>1, <1>2 DEF TypeOK, Put
<1>7. \A s \in Requests : /\ (Owns(s)' => Owns(s) /\ s # r) /\ (Engaged(s)' => Engaged(s))
                          /\ (Leasing(s)' => Leasing(s)) /\ (Dialing(s)' => Dialing(s))
  BY <1>4 DEF Owns, Engaged, Leasing, Dialing
<1>8. \A s \in Requests : Owns(s)' => conn[s] \in Conns \ {c}
  BY <1>5, <1>7 DEF LeaseInv, Engaged
<1>9. \A s \in Requests : Dialing(s)' => holder'[conn[s]] = None /\ (conn[s] \in entries => busy'[conn[s]])
  BY <1>6, <1>7, <1>8 DEF LeaseInv, Alive, Owns
<1>10. \A s \in Requests : Leasing(s)' /\ conn[s] \in entries => holder'[conn[s]] = s /\ busy'[conn[s]]
  BY <1>6, <1>7, <1>8 DEF LeaseInv, Alive, Owns
<1>11. \A d \in Conns : d >= nextConn => holder'[d] = None
  BY <1>6 DEF LeaseInv
<1> QED
  BY <1>1, <1>7, <1>9, <1>10, <1>11 DEF LeaseInv, Alive

\* No step breaks the leases.
LEMMA LeaseStep == TypeOK /\ LeaseInv /\ [Next]_vars => LeaseInv'
<1> SUFFICES ASSUME TypeOK, LeaseInv, [Next]_vars PROVE LeaseInv'
  OBVIOUS
<1>1. ASSUME NEW r \in Requests, RequestStep(r) PROVE LeaseInv'
  <2> DEFINE same == UNCHANGED <<entries, nextConn, busy, holder, conn>>
  <2>1. CASE AcquirePark(r) \/ AcquireAbort(r) \/ DialAfterClose(r) \/ FinishCapture(r)
    <3>1. /\ same /\ pc' \in {Put(pc, r, "parked"), Put(pc, r, "done")}
          /\ pc[r] \in {"acquire", "parked", "dialing", "failing", "closing"}
      BY <2>1 DEF AcquirePark, AcquireAbort, DialAfterClose, FinishCapture, poolVars
    <3>2. Moves(r, {"acquire", "parked", "dialing", "failing", "closing"}, {"acquire", "parked", "done"})
      BY <3>1 DEF Moves, Put, TypeOK
    <3> QED
      BY <3>1, <3>2, MoveStep
  <2>2. CASE DialFail(r)
    <3>1. pc[r] = "dialing" /\ pc' = WokenBy({conn[r]}, Put(pc, r, "done")) /\ entries' \subseteq entries
          /\ UNCHANGED <<nextConn, busy, holder, conn>>
      BY <2>2 DEF DialFail, Discard
    <3>2. "done" \in PcSet \ {"parked"}
      BY DEF PcSet
    <3>3. Moves(r, {"acquire", "parked", "dialing", "failing", "closing"}, {"acquire", "parked", "done"})
      BY <3>1, <3>2, WokenMove DEF Moves, TypeOK
    <3> QED
      BY <3>1, <3>3, MoveStep
  <2>3. CASE WriteCreate(r) \/ PrefixBlock(r) \/ ReadBlock(r) \/ ReadQueued(r)
    <3>1. /\ same /\ pc' \in {Put(pc, r, "prefix"), Put(pc, r, "prefixBlocked"), Put(pc, r, "bodyBlocked"),
                              Put(pc, r, "body")}
          /\ pc[r] \in LeasingPcs
      BY <2>3 DEF WriteCreate, PrefixBlock, ReadBlock, ReadQueued, Readable, poolVars, LeasingPcs
    <3>2. Moves(r, LeasingPcs, LeasingPcs \cup {"failing", "closing", "done"})
      BY <3>1 DEF Moves, Put, TypeOK, LeasingPcs
    <3> QED
      BY <3>1, <3>2, MoveStep
  <2>4. ASSUME NEW next \in {"failing", "body", "closing"}, pc[r] \in LeasingPcs, ReleaseDiscard(r, next), conn' = conn
        PROVE  LeaseInv'
    <3>1. next \in PcSet \ {"parked"}
      BY DEF PcSet
    <3>2. /\ entries' \subseteq entries /\ UNCHANGED <<nextConn, busy, holder>>
          /\ pc'[r] = next
          /\ \A s \in Requests \ {r} : pc'[s] = pc[s] \/ (pc[s] = "parked" /\ pc'[s] = "acquire")
      BY <2>4, <3>1, ReleaseFacts
    <3>3. Moves(r, LeasingPcs, LeasingPcs \cup {"failing", "closing", "done"})
      BY <2>4, <3>2 DEF Moves, LeasingPcs
    <3> QED
      BY <2>4, <3>2, <3>3, MoveStep
  <2>5. CASE WriteFail(r) \/ PrefixFail(r)
    BY <2>4, <2>5 DEF WriteFail, PrefixFail, Fail, LeasingPcs
  <2>6. CASE PrefixTake(r)
    <3>1. CASE Fail(r)
      BY <2>4, <2>6, <3>1 DEF PrefixTake, Fail, LeasingPcs
    <3>2. CASE same /\ pc' \in {Put(pc, r, "prefix"), Put(pc, r, "body")}
      <4>1. Moves(r, LeasingPcs, LeasingPcs \cup {"failing", "closing", "done"})
        BY <2>6, <3>2 DEF PrefixTake, Moves, Put, TypeOK, LeasingPcs
      <4> QED
        BY <3>2, <4>1, MoveStep
    <3> QED
      BY <2>6, <3>1, <3>2 DEF PrefixTake, poolVars
  <2>7. ASSUME NEW reason, ReadAbort(r, reason) PROVE LeaseInv'
    BY <2>4, <2>7 DEF ReadAbort, LeasingPcs
  <2>8. CASE CloseRelease(r) /\ ~Returns(r)
    BY <2>4, <2>8 DEF CloseRelease, LeasingPcs
  <2>9. CASE ReadPrefetched(r) \/ Drain(r) \/ CloseBegin(r) \/ Cancel(r)
    <3>1. same /\ pc' = pc
      BY <2>9 DEF ReadPrefetched, Drain, CloseBegin, Cancel, poolVars
    <3> QED
      BY <3>1, MoveStep DEF Moves
  <2>10. CASE CancelRelease(r)
    <3>1. PICK S : pc' = WokenBy(S, Put(pc, r, pc[r]))
      BY <2>10 DEF CancelRelease, ReleaseDiscard
    <3>2. Put(pc, r, pc[r]) = pc
      BY DEF Put, TypeOK
    <3>3. \A s \in Requests : pc'[s] = pc[s] \/ (pc[s] = "parked" /\ pc'[s] = "acquire")
      BY <3>1, <3>2, WokenFacts DEF TypeOK
    <3>4. entries' \subseteq entries /\ UNCHANGED <<nextConn, busy, holder, conn>>
      BY <2>10 DEF CancelRelease, ReleaseDiscard, Discard
    <3>5. \A s \in Requests : /\ (pc[s] # "dialing" => pc'[s] # "dialing")
                              /\ (Leasing(s)' => Leasing(s)) /\ (Engaged(s)' => Engaged(s))
      BY <3>3 DEF Leasing, Engaged, Owns, Dialing
    <3> QED
      BY <3>4, <3>5, FrameStep
  <2> QED
    BY <1>1, <2>1, <2>2, <2>3, <2>5, <2>6, <2>7, <2>8, <2>9, <2>10, ReuseStep, DialStep, DialDoneStep, ReturnStep
    DEF RequestStep
<1>2. ASSUME entries' \subseteq entries, UNCHANGED <<nextConn, busy, holder, conn>>,
             pc' = pc \/ pc' = Woken(pc)
      PROVE  LeaseInv'
  <2>1. \A s \in Requests : pc'[s] = pc[s] \/ (pc[s] = "parked" /\ pc'[s] = "acquire")
    BY <1>2, WokenFacts DEF TypeOK
  <2>2. \A s \in Requests : /\ (pc[s] # "dialing" => pc'[s] # "dialing")
                            /\ (Leasing(s)' => Leasing(s)) /\ (Engaged(s)' => Engaged(s))
    BY <2>1 DEF Leasing, Engaged, Owns, Dialing
  <2> QED
    BY <1>2, <2>2, FrameStep
<1>3. ASSUME NEW c \in Conns, ReceiverStep(c) PROVE LeaseInv'
  <2>1. CASE Admit(c)
    BY <1>2, <2>1 DEF Admit, Discard, WokenBy
  <2> QED
    BY <1>2, <1>3, <2>1 DEF ReceiverStep, Capture, ReadMessage, ReadStray, ReadFail, DeliverReserved,
       SettleReserved, AwaitRelease, poolVars, reqVars
<1>4. ASSUME NEW c \in Conns, IdleTimerFires(c) \/ IdleTimerRuns(c) PROVE LeaseInv'
  <2>1. CASE IdleTimerFires(c)
    BY <1>2, <2>1 DEF IdleTimerFires, reqVars
  <2>2. CASE IdleTimerRuns(c)
    BY <1>2, <2>2 DEF IdleTimerRuns, Discard, WokenBy
  <2> QED
    BY <1>4, <2>1, <2>2
<1>5. CASE Age \/ ClosePool
  BY <1>2, <1>5 DEF Age, ClosePool, Discard, reqVars
<1>6. CASE UNCHANGED vars
  BY <1>2, <1>6 DEF vars, poolVars, reqVars
<1> QED
  BY <1>1, <1>3, <1>4, <1>5, <1>6 DEF Next

\* The empty pool is well typed and leases nothing.
LEMMA LeaseInit == Init => TypeOK /\ LeaseInv
<1> SUFFICES ASSUME Init PROVE TypeOK /\ LeaseInv
  OBVIOUS
<1>1. TypeOK
  <2>1. entries \subseteq Conns /\ nextConn \in Nat \ {0}
    BY DEF Init
  <2>5. closed \in BOOLEAN
    BY Zenon DEF Init
  <2>2. busy \in [Conns -> BOOLEAN]
    BY DEF Init
  <2>3. holder \in [Conns -> Holders] /\ seen \in [Conns -> Holders] /\ reader \in [Conns -> ReaderSet]
    BY DEF Init, Holders, ReaderSet
  <2>4. pc \in [Requests -> PcSet] /\ conn \in [Requests -> Conns \cup {None}]
        /\ after \in [Requests -> {"none", "armed", "started", "stopped"}]
    BY DEF Init, PcSet
  <2> QED
    BY <2>1, <2>2, <2>3, <2>4, <2>5 DEF TypeOK
<1>2. Cardinality(entries) = 0
  BY FS_EmptySet DEF Init
<1>3. \A r \in Requests : ~Engaged(r) /\ ~Owns(r) /\ ~Leasing(r) /\ ~Dialing(r)
  BY DEF Init, Engaged, Owns, Leasing, Dialing
<1>4. \A c \in Conns : holder[c] = None
  BY DEF Init
<1>5. entries = {}
  BY DEF Init
<1> QED
  BY <1>1, <1>2, <1>3, <1>4, <1>5, PoolAssumption DEF LeaseInv

\* Types and leases hold in every reachable state.
THEOREM PoolIsSound == Spec => [](TypeOK /\ LeaseInv)
  BY LeaseInit, TypeStep, LeaseStep, PTL DEF Spec

\* Two requests in progress never hold the same connection, the pool agrees on
\* who holds it, and dials in progress count against the limit.
THEOREM LeasesAreExclusive == Spec => []ExclusiveLease
<1>1. LeaseInv => ExclusiveLease
  BY DEF LeaseInv, ExclusiveLease, Owns
<1> QED
  BY <1>1, PoolIsSound, PTL


-----------------------------------------------------------------------------
(* Who may take a leased connection out of the pool.                       *)

HolderDiscards ==
  \A c \in entries \ entries' :
    busy[c] /\ holder[c] # None =>
      \/ closed'
      \/ reader'[c] # reader[c]
      \/ <<pc'[holder[c]], after'[holder[c]], readErr'[holder[c]]>>
           # <<pc[holder[c]], after[holder[c]], readErr[holder[c]]>>

\* A release of its own moves the request on.
LEMMA ReleaseDiscards ==
  ASSUME TypeOK, NEW r \in Requests, NEW next \in PcSet \ {"parked"}, ReleaseDiscard(r, next), pc[r] # next
  PROVE  HolderDiscards
<1>1. pc'[r] = next /\ \A c \in entries \ entries' : holder[c] = r
  BY ReleaseFacts
<1> QED
  BY <1>1 DEF HolderDiscards

\* No step takes a leased connection away from its holder behind its back.
LEMMA DiscardStep == TypeOK /\ LeaseInv /\ Next => HolderDiscards
<1> SUFFICES ASSUME TypeOK, LeaseInv, Next PROVE HolderDiscards
  OBVIOUS
<1>1. ASSUME \A c \in entries \ entries' : ~busy[c] \/ holder[c] = None PROVE HolderDiscards
  BY <1>1 DEF HolderDiscards
<1>2. ASSUME NEW r \in Requests, RequestStep(r) PROVE HolderDiscards
  <2>1. CASE AcquireReuse(r)
    <3>1. \A c \in entries \ entries' : c \in Stale
      BY <2>1 DEF AcquireReuse
    <3> QED
      BY <1>1, <3>1 DEF Stale, Idle
  <2>2. CASE AcquireDial(r)
    <3>1. \A c \in entries \ entries' : c \in Stale \cup Evicted
      BY <2>2 DEF AcquireDial
    <3>2. \A c \in Stale \cup Evicted : ~busy[c]
      BY DEF Stale, Idle, Evicted
    <3> QED
      BY <1>1, <3>1, <3>2
  <2>3. CASE DialFail(r)
    <3>1. \A c \in entries \ entries' : c = conn[r]
      BY <2>3 DEF DialFail, Discard
    <3>2. holder[conn[r]] = None
      BY <2>3 DEF DialFail, LeaseInv, Dialing
    <3> QED
      BY <1>1, <3>1, <3>2
  <2>4. CASE Fail(r) /\ pc[r] \in LeasingPcs
    BY <2>4, ReleaseDiscards DEF Fail, LeasingPcs, PcSet
  <2>5. CASE WriteFail(r) \/ PrefixFail(r)
    BY <2>4, <2>5 DEF WriteFail, PrefixFail, LeasingPcs
  <2>6. CASE PrefixTake(r)
    BY <1>1, <2>4, <2>6 DEF PrefixTake, LeasingPcs, poolVars
  <2>7. ASSUME NEW reason, ReadAbort(r, reason) PROVE HolderDiscards
    BY <2>7, ReleaseDiscards DEF ReadAbort, PcSet
  <2>8. CASE CloseRelease(r)
    <3>1. CASE Returns(r)
      BY <1>1, <2>8, <3>1 DEF CloseRelease
    <3>2. CASE ~Returns(r)
      BY <2>8, <3>2, ReleaseDiscards DEF CloseRelease, PcSet
    <3> QED
      BY <3>1, <3>2
  <2>9. CASE CancelRelease(r)
    <3>1. \A c \in entries \ entries' : holder[c] = r
      BY <2>9 DEF CancelRelease, ReleaseDiscard, Discard, Holds
    <3>2. after[r] = "started" /\ after'[r] = "stopped"
      BY <2>9 DEF CancelRelease, Put, TypeOK
    <3> QED
      BY <3>1, <3>2 DEF HolderDiscards
  <2>10. CASE entries' = entries
    BY <1>1, <2>10
  <2> QED
    BY <1>2, <2>1, <2>2, <2>3, <2>5, <2>6, <2>7, <2>8, <2>9, <2>10
    DEF RequestStep, AcquirePark, AcquireAbort, DialAfterClose, DialDone, WriteCreate, PrefixBlock, ReadPrefetched,
        ReadQueued, ReadBlock, Drain, CloseBegin, FinishCapture, Cancel, poolVars
<1>3. ASSUME NEW c \in Conns, ReceiverStep(c) PROVE HolderDiscards
  <2>1. CASE Admit(c)
    <3>1. \A d \in entries \ entries' : d = c
      BY <2>1 DEF Admit, Discard
    <3>2. reader[c] = "got" /\ reader'[c] # "got"
      BY <2>1 DEF Admit, ReceiverExits, Enqueue, AfterDelivery, Put, TypeOK
    <3> QED
      BY <3>1, <3>2 DEF HolderDiscards
  <2> QED
    BY <1>1, <1>3, <2>1 DEF ReceiverStep, Capture, ReadMessage, ReadStray, ReadFail, DeliverReserved,
       SettleReserved, AwaitRelease, poolVars
<1>4. ASSUME NEW c \in Conns, IdleTimerFires(c) \/ IdleTimerRuns(c) PROVE HolderDiscards
  BY <1>1, <1>4 DEF IdleTimerFires, IdleTimerRuns, Discard, TimerVictims
<1>5. CASE Age
  BY <1>1, <1>5 DEF Age
<1>6. CASE ClosePool
  BY <1>6 DEF ClosePool, HolderDiscards
<1> QED
  BY <1>2, <1>3, <1>4, <1>5, <1>6 DEF Next

\* A leased connection leaves the pool only at shutdown, by its own receiver or
\* by the request that holds it.
THEOREM DiscardsAreOwn == Spec => OnlyHolderDiscards
<1>1. TypeOK /\ LeaseInv /\ [Next]_vars => [HolderDiscards]_vars
  BY DiscardStep
<1>2. OnlyHolderDiscards <=> [][HolderDiscards]_vars
  BY DEF OnlyHolderDiscards, HolderDiscards
<1> QED
  BY <1>1, <1>2, PoolIsSound, PTL DEF Spec


-----------------------------------------------------------------------------
(* The capture of a request is sealed.                                     *)

SealType ==
  /\ terminal \in [Requests -> BOOLEAN] /\ released \in [Requests -> BOOLEAN]
  /\ pending \in [Requests -> BOOLEAN] /\ finished \in [Requests -> BOOLEAN]
  /\ observed \in [Requests -> Nat]

\* The request has not got a connection yet.
Unserved(r) == pc[r] \in {"acquire", "parked", "dialing"}

\* A connection's holder, and the lease its receiver captured, are leases that
\* were once given that connection.
Given ==
  /\ \A c \in Conns, r \in Requests : holder[c] = r \/ seen[c] = r => conn[r] = c /\ ~Unserved(r)
  /\ \A r \in Requests : terminal[r] \/ released[r] \/ finished[r] => conn[r] \in Conns /\ ~Unserved(r)

\* A receiver that delivered the end of a response stays with that lease until
\* it is released; its reservation is visible until it has settled.
Stays ==
  /\ \A r \in Requests : terminal[r] /\ ~released[r] =>
       \/ reader[conn[r]] = "exit"
       \/ seen[conn[r]] = r /\ reader[conn[r]] \in {"wait", "reserve", "settle"}
  /\ \A c \in Conns : reader[c] \in {"reserve", "settle"} => seen[c] \in Requests /\ pending[seen[c]]
  /\ \A c \in Conns : reader[c] = "wait" => seen[c] \in Requests

\* A released lease is nobody's, and a receiver that still remembers it is about
\* to look for the next one.
Forgotten ==
  \A r \in Requests : released[r] =>
    /\ pc[r] = "done"
    /\ \A c \in Conns : holder[c] # r /\ (seen[c] = r => reader[c] \in {"wait", "top", "exit"})

\* A finished capture has no receiver left, or its connection was returned.
Sealed ==
  \A r \in Requests : finished[r] => pc[r] = "done" /\ (reader[conn[r]] = "exit" \/ released[r])

\* Receivers start when their dial is done.
Unread ==
  /\ \A r \in Requests : Dialing(r) => reader[conn[r]] = "none"
  /\ \A c \in Conns : c >= nextConn => reader[c] = "none"

(* CaptureSealed needs to know where the receiver of a finished request    *)
(* is: that it exited, or that it cannot name the released lease any more. *)
SealInv == SealType /\ Given /\ Stays /\ Forgotten /\ Sealed /\ Unread


sealVars == <<reader, seen, holder, conn, nextConn, terminal, released, pending, finished, observed>>

\* Nobody returns to the queue of the pool, and nobody starts to dial.
OnlyForward ==
  \A s \in Requests : /\ (Unserved(s)' => Unserved(s)) /\ (Dialing(s)' => Dialing(s))
                      /\ (pc[s] = "done" => pc'[s] = "done")

\* A step of one request's control state, with wakeups.
LEMMA SealFrame ==
  ASSUME SealInv, UNCHANGED sealVars, OnlyForward
  PROVE  SealInv'
  BY DEF SealInv, SealType, Given, Stays, Forgotten, Sealed, Unread, sealVars, OnlyForward

\* A request that takes a step of its own moves forward, the others wake up.
LEMMA ForwardMove ==
  ASSUME TypeOK, NEW r \in Requests, pc[r] # "done", NEW next, pc'[r] = next, Unserved(r) \/ next \notin {"acquire", "parked"},
         next # "dialing",
         \A s \in Requests \ {r} : pc'[s] = pc[s] \/ (pc[s] = "parked" /\ pc'[s] = "acquire")
  PROVE  OnlyForward
  BY DEF OnlyForward, Unserved, Dialing


\* Leasing a pooled connection: the request was nobody's holder before.
LEMMA SealReuse ==
  ASSUME TypeOK, LeaseInv, SealInv, NEW r \in Requests, AcquireReuse(r)
  PROVE  SealInv'
<1>1. PICK c \in Match(r), S \in SUBSET Stale :
        /\ holder' = Put(holder, c, r) /\ conn' = Put(conn, r, c) /\ pc' = WokenBy(S, Put(pc, r, "write"))
  BY DEF AcquireReuse
<1>2. /\ pc[r] = "acquire"
      /\ UNCHANGED <<reader, seen, nextConn, terminal, released, pending, finished, observed>>
  BY DEF AcquireReuse, readerVars, leaseVars
<1>3. c \in Conns /\ c < nextConn
  BY DEF Match, TypeOK, LeaseInv
<1>4. "write" \in PcSet \ {"parked"}
  BY DEF PcSet
<1>5. /\ pc'[r] = "write"
      /\ \A s \in Requests \ {r} : pc'[s] = pc[s] \/ (pc[s] = "parked" /\ pc'[s] = "acquire")
  BY <1>1, <1>4, WokenMove DEF TypeOK
<1>6. conn'[r] = c /\ \A s \in Requests \ {r} : conn'[s] = conn[s]
  BY <1>1 DEF TypeOK, Put
<1>7. holder'[c] = r /\ \A d \in Conns \ {c} : holder'[d] = holder[d]
  BY <1>1, <1>3 DEF TypeOK, Put
<1>8. OnlyForward
  BY <1>2, <1>5, ForwardMove DEF Unserved
<1>9. ~terminal[r] /\ ~released[r] /\ ~finished[r] /\ \A d \in Conns : holder[d] # r /\ seen[d] # r
  BY <1>2 DEF SealInv, Given, Unserved
<1>10. SealType'
  BY <1>2 DEF SealInv, SealType
<1>11. Given'
  BY <1>2, <1>3, <1>5, <1>6, <1>7, <1>8, <1>9 DEF SealInv, Given, Unserved, OnlyForward
<1>12. Stays'
  BY <1>2, <1>6, <1>9 DEF SealInv, Stays
<1>13. Forgotten'
  BY <1>2, <1>3, <1>7, <1>8, <1>9 DEF SealInv, Forgotten, OnlyForward
<1>14. Sealed'
  BY <1>2, <1>6, <1>8, <1>9 DEF SealInv, Sealed, OnlyForward
<1>15. Unread'
  BY <1>2, <1>5, <1>6, <1>8 DEF SealInv, Unread, OnlyForward, Dialing
<1> QED
  BY <1>10, <1>11, <1>12, <1>13, <1>14, <1>15 DEF SealInv

\* A new connection has no receiver yet.
LEMMA SealDial ==
  ASSUME TypeOK, LeaseInv, SealInv, NEW r \in Requests, AcquireDial(r)
  PROVE  SealInv'
<1>1. \E S : pc' = WokenBy(S, Put(pc, r, "dialing"))
  BY DEF AcquireDial
<1>2. /\ pc[r] = "acquire" /\ conn' = Put(conn, r, nextConn) /\ nextConn' = nextConn + 1
      /\ UNCHANGED <<reader, seen, holder, terminal, released, pending, finished, observed>>
  BY DEF AcquireDial, readerVars, leaseVars
<1>3. nextConn \in Conns
  BY PoolAssumption DEF AcquireDial, Conns, TypeOK
<1>4. "dialing" \in PcSet \ {"parked"}
  BY DEF PcSet
<1>5. /\ pc'[r] = "dialing"
      /\ \A s \in Requests \ {r} : pc'[s] = pc[s] \/ (pc[s] = "parked" /\ pc'[s] = "acquire")
  BY <1>1, <1>4, WokenMove DEF TypeOK
<1>6. conn'[r] = nextConn /\ \A s \in Requests \ {r} : conn'[s] = conn[s]
  BY <1>2 DEF TypeOK, Put
<1>7. ~terminal[r] /\ ~released[r] /\ ~finished[r] /\ \A d \in Conns : holder[d] # r /\ seen[d] # r
  BY <1>2 DEF SealInv, Given, Unserved
<1>8. \A s \in Requests \ {r} : /\ (Unserved(s)' => Unserved(s)) /\ (Dialing(s)' => Dialing(s))
                                /\ (pc[s] = "done" => pc'[s] = "done")
  BY <1>5 DEF Unserved, Dialing
<1>9. Given'
  BY <1>2, <1>6, <1>7, <1>8 DEF SealInv, Given
<1>10. Stays'
  BY <1>2, <1>6, <1>7 DEF SealInv, Stays
<1>11. Forgotten'
  BY <1>2, <1>7, <1>8 DEF SealInv, Forgotten
<1>12. Sealed'
  BY <1>2, <1>6, <1>7, <1>8 DEF SealInv, Sealed
<1>13. \A d \in Conns : d >= nextConn' => d >= nextConn
  BY <1>2 DEF TypeOK, Conns
<1>14. reader[nextConn] = "none"
  BY <1>3 DEF SealInv, Unread, TypeOK
<1>15. Unread'
  BY <1>2, <1>6, <1>8, <1>13, <1>14 DEF SealInv, Unread
<1> QED
  BY <1>2, <1>9, <1>10, <1>11, <1>12, <1>15 DEF SealInv, SealType

\* A receiver starts for a request that was nobody's holder.
LEMMA SealDialDone ==
  ASSUME TypeOK, LeaseInv, SealInv, NEW r \in Requests, DialDone(r)
  PROVE  SealInv'
<1> DEFINE c == conn[r]
<1>1. /\ pc[r] = "dialing" /\ holder' = Put(holder, c, r) /\ reader' = Put(reader, c, "top")
      /\ pc' = Put(pc, r, "write")
      /\ UNCHANGED <<conn, seen, nextConn, terminal, released, pending, finished, observed>>
  BY DEF DialDone, leaseVars
<1>2. c \in Conns /\ c < nextConn
  BY <1>1 DEF LeaseInv, Engaged, Owns, Dialing
<1>3. \A s \in Requests \ {r} : Dialing(s) => conn[s] # c
  BY <1>1 DEF LeaseInv, Owns, Dialing
<1>4. reader[c] = "none"
  BY <1>1 DEF SealInv, Unread, Dialing
<1>5. reader'[c] = "top" /\ \A d \in Conns \ {c} : reader'[d] = reader[d]
  BY <1>1, <1>2 DEF TypeOK, Put
<1>6. holder'[c] = r /\ \A d \in Conns \ {c} : holder'[d] = holder[d]
  BY <1>1, <1>2 DEF TypeOK, Put
<1>7. pc'[r] = "write" /\ \A s \in Requests \ {r} : pc'[s] = pc[s]
  BY <1>1 DEF TypeOK, Put
<1>8. ~terminal[r] /\ ~released[r] /\ ~finished[r] /\ \A d \in Conns : holder[d] # r /\ seen[d] # r
  BY <1>1 DEF SealInv, Given, Unserved
<1>9. c = conn'[r]
  BY <1>1
<1> HIDE DEF c
<1>10. Given'
  BY <1>1, <1>2, <1>6, <1>7, <1>8, <1>9 DEF SealInv, Given, Unserved
<1>11. Stays'
  <2>1. \A s \in Requests : terminal[s] => conn[s] \in Conns
    BY DEF SealInv, Given
  <2> QED
    BY <1>1, <1>2, <1>4, <1>5, <1>8, <2>1 DEF SealInv, Stays
<1>12. Forgotten'
  BY <1>1, <1>2, <1>5, <1>6, <1>7, <1>8 DEF SealInv, Forgotten
<1>13. Sealed'
  <2>1. \A s \in Requests : finished[s] => conn[s] \in Conns
    BY DEF SealInv, Given
  <2> QED
    BY <1>1, <1>2, <1>4, <1>5, <1>7, <1>8, <2>1 DEF SealInv, Sealed
<1>14. Unread'
  <2>1. \A s \in Requests : Dialing(s)' => s # r /\ Dialing(s)
    BY <1>7 DEF Dialing
  <2>2. \A s \in Requests : Dialing(s)' => conn'[s] \in Conns \ {c}
    BY <1>1, <1>3, <2>1 DEF LeaseInv, Engaged, Owns
  <2>3. \A d \in Conns : d >= nextConn => d # c
    BY <1>2 DEF TypeOK, Conns
  <2> QED
    BY <1>1, <1>5, <2>1, <2>2, <2>3 DEF SealInv, Unread
<1> QED
  BY <1>1, <1>10, <1>11, <1>12, <1>13, <1>14 DEF SealInv, SealType


\* Returning a connection: a terminal message without a reservation means that
\* its receiver waits for exactly this release.
LEMMA SealReturn ==
  ASSUME TypeOK, LeaseInv, SealInv, NEW r \in Requests, CloseRelease(r), Returns(r)
  PROVE  SealInv'
<1> DEFINE c == conn[r]
<1>1. /\ pc[r] = "body" /\ holder' = Put(holder, c, None)
      /\ pc' = Woken(Put(pc, r, "done"))
      /\ UNCHANGED <<conn, reader, seen, nextConn, terminal, pending, observed>>
  BY DEF CloseRelease, readerVars
<1>2. released' = [released EXCEPT ![r] = TRUE] /\ finished' = [finished EXCEPT ![r] = TRUE]
  BY DEF CloseRelease, Put
<1>3. c \in Conns
  BY <1>1 DEF LeaseInv, Engaged, Owns, Leasing
<1>4. terminal[r] /\ ~pending[r]
  BY DEF Returns, Reusable
<1>5. ~released[r]
  BY <1>1 DEF SealInv, Forgotten
<1>6. reader[c] = "exit" \/ (seen[c] = r /\ reader[c] = "wait")
  BY <1>3, <1>4, <1>5 DEF SealInv, Stays
<1>7. released'[r] /\ \A s \in Requests \ {r} : released'[s] = released[s]
  BY <1>2 DEF SealInv, SealType
<1>8. finished'[r] /\ \A s \in Requests \ {r} : finished'[s] = finished[s]
  BY <1>2 DEF SealInv, SealType
<1>9. holder'[c] = None /\ \A d \in Conns \ {c} : holder'[d] = holder[d]
  BY <1>1, <1>3 DEF TypeOK, Put
<1>10. "done" \in PcSet \ {"parked"}
  BY DEF PcSet
<1>11. /\ pc'[r] = "done"
       /\ \A s \in Requests \ {r} : pc'[s] = pc[s] \/ (pc[s] = "parked" /\ pc'[s] = "acquire")
  BY <1>1, <1>10, WokenMove DEF TypeOK
<1>12. OnlyForward
  BY <1>1, <1>11, ForwardMove
<1>13. \A d \in Conns : holder[d] = r \/ seen[d] = r => d = c
  BY DEF SealInv, Given
<1>14. None \notin Requests
  BY PoolAssumption
<1>15. released' \in [Requests -> BOOLEAN] /\ finished' \in [Requests -> BOOLEAN]
  BY <1>2 DEF SealInv, SealType
<1> HIDE DEF c
<1>16. SealType'
  BY <1>1, <1>15 DEF SealInv, SealType
<1>17. Given'
  <2>1. \A d \in Conns, s \in Requests : holder'[d] = s \/ seen'[d] = s => conn'[s] = d /\ ~Unserved(s)'
    BY <1>1, <1>9, <1>12, <1>14 DEF SealInv, Given, OnlyForward
  <2>2. \A s \in Requests : terminal'[s] \/ released'[s] \/ finished'[s] => terminal[s] \/ released[s] \/ finished[s]
    BY <1>1, <1>4, <1>7, <1>8
  <2> QED
    BY <1>1, <1>12, <2>1, <2>2 DEF SealInv, Given, OnlyForward
<1>18. Stays'
  BY <1>1, <1>7 DEF SealInv, Stays
<1>19. Forgotten'
  <2>1. holder'[c] # r /\ (seen'[c] = r => reader'[c] \in {"wait", "top", "exit"})
    BY <1>1, <1>6, <1>9, <1>14
  <2>2. \A d \in Conns \ {c} : holder'[d] # r /\ seen'[d] # r
    BY <1>1, <1>9, <1>13
  <2>3. \A s \in Requests \ {r} : released'[s] =>
          /\ pc'[s] = "done"
          /\ \A d \in Conns : holder'[d] # s /\ (seen'[d] = s => reader'[d] \in {"wait", "top", "exit"})
    BY <1>1, <1>7, <1>9, <1>12, <1>14 DEF SealInv, Forgotten, OnlyForward
  <2> QED
    BY <1>11, <2>1, <2>2, <2>3 DEF Forgotten
<1>20. Sealed'
  BY <1>1, <1>7, <1>8, <1>11, <1>12 DEF SealInv, Sealed, OnlyForward
<1>21. Unread'
  BY <1>1, <1>12 DEF SealInv, Unread, OnlyForward
<1> QED
  BY <1>16, <1>17, <1>18, <1>19, <1>20, <1>21 DEF SealInv

\* Finishing the capture: the receiver has exited.
LEMMA SealFinish ==
  ASSUME TypeOK, LeaseInv, SealInv, NEW r \in Requests, FinishCapture(r)
  PROVE  SealInv'
<1>1. /\ pc[r] \in {"failing", "closing"} /\ reader[conn[r]] = "exit" /\ pc' = Put(pc, r, "done")
      /\ UNCHANGED <<conn, reader, seen, holder, nextConn, terminal, released, pending, observed>>
  BY DEF FinishCapture, ReceiverDone, poolVars, readerVars, leaseVars
<1>2. finished' = [finished EXCEPT ![r] = TRUE]
  BY DEF FinishCapture, Put
<1>3. conn[r] \in Conns
  BY <1>1 DEF LeaseInv, Engaged
<1>4. finished'[r] /\ (\A s \in Requests \ {r} : finished'[s] = finished[s]) /\ finished' \in [Requests -> BOOLEAN]
  BY <1>2 DEF SealInv, SealType
<1>5. pc'[r] = "done" /\ \A s \in Requests \ {r} : pc'[s] = pc[s]
  BY <1>1 DEF TypeOK, Put
<1>6. OnlyForward
  BY <1>1, <1>5, ForwardMove
<1>7. ~Unserved(r)'
  BY <1>5 DEF Unserved
<1>8. Given'
  BY <1>1, <1>3, <1>4, <1>6, <1>7 DEF SealInv, Given, OnlyForward
<1>9. Stays'
  BY <1>1 DEF SealInv, Stays
<1>10. Forgotten'
  BY <1>1, <1>6 DEF SealInv, Forgotten, OnlyForward
<1>11. Sealed'
  BY <1>1, <1>4, <1>5, <1>6 DEF SealInv, Sealed, OnlyForward
<1>12. Unread'
  BY <1>1, <1>6 DEF SealInv, Unread, OnlyForward
<1> QED
  BY <1>1, <1>4, <1>8, <1>9, <1>10, <1>11, <1>12 DEF SealInv, SealType

\* Every other step of a request leaves the receivers and the leases alone.
LEMMA SealRequest ==
  ASSUME TypeOK, LeaseInv, SealInv, NEW r \in Requests, RequestStep(r)
  PROVE  SealInv'
<1>1. ASSUME Fail(r), pc[r] \in LeasingPcs,
             UNCHANGED <<readerVars, released, pending, terminal, conn, observed, finished>>
      PROVE  SealInv'
  <2>1. pc'[r] = "failing" /\ UNCHANGED <<holder, nextConn>>
        /\ \A s \in Requests \ {r} : pc'[s] = pc[s] \/ (pc[s] = "parked" /\ pc'[s] = "acquire")
    BY <1>1, ReleaseFacts DEF Fail, PcSet
  <2>2. OnlyForward
    BY <1>1, <2>1, ForwardMove DEF LeasingPcs
  <2> QED
    BY <1>1, <2>1, <2>2, SealFrame DEF sealVars, readerVars
<1>2. ASSUME NEW next \in PcSet, next # "dialing", pc' = Put(pc, r, next), pc[r] # "done",
             Unserved(r) \/ next \notin {"acquire", "parked"},
             UNCHANGED <<holder, nextConn, reader, seen, released, pending, terminal, conn, observed, finished>>
      PROVE  SealInv'
  <2>1. pc'[r] = next /\ \A s \in Requests \ {r} : pc'[s] = pc[s]
    BY <1>2 DEF TypeOK, Put
  <2>2. OnlyForward
    BY <1>2, <2>1, ForwardMove
  <2> QED
    BY <1>2, <2>2, SealFrame DEF sealVars
<1> DEFINE rest == UNCHANGED <<holder, nextConn, reader, seen, released, pending, terminal, conn, observed, finished>>
<1>3. CASE AcquirePark(r) \/ AcquireAbort(r)
  <2>1. rest /\ Unserved(r) /\ pc' \in {Put(pc, r, "parked"), Put(pc, r, "done")}
    BY <1>3 DEF AcquirePark, AcquireAbort, Unserved, poolVars, readerVars, leaseVars
  <2> QED
    BY <1>2, <2>1 DEF Unserved, PcSet
<1>4. CASE DialFail(r)
  <2>1. \E S : pc' = WokenBy(S, Put(pc, r, "done"))
    BY <1>4 DEF DialFail
  <2>2. pc'[r] = "done" /\ \A s \in Requests \ {r} : pc'[s] = pc[s] \/ (pc[s] = "parked" /\ pc'[s] = "acquire")
    BY <2>1, WokenMove DEF TypeOK, PcSet
  <2>3. OnlyForward
    BY <1>4, <2>2, ForwardMove DEF DialFail
  <2> QED
    BY <1>4, <2>3, SealFrame DEF DialFail, sealVars, readerVars, leaseVars
<1>5. CASE DialAfterClose(r)
  BY <1>2, <1>5 DEF DialAfterClose, poolVars, readerVars, leaseVars, PcSet
<1>6. CASE WriteCreate(r)
  BY <1>2, <1>6 DEF WriteCreate, poolVars, readerVars, leaseVars, PcSet
<1>7. CASE WriteFail(r) \/ PrefixFail(r)
  BY <1>1, <1>7 DEF WriteFail, PrefixFail, LeasingPcs, leaseVars
<1>8. CASE PrefixBlock(r)
  BY <1>2, <1>8 DEF PrefixBlock, poolVars, readerVars, leaseVars, PcSet
<1>9. CASE PrefixTake(r)
  <2>1. pc[r] \in {"prefix", "prefixBlocked"}
        /\ UNCHANGED <<readerVars, released, pending, terminal, conn, observed, finished>>
    BY <1>9 DEF PrefixTake
  <2>2. CASE Fail(r)
    BY <1>1, <2>1, <2>2 DEF LeasingPcs
  <2>3. CASE pc' \in {Put(pc, r, "prefix"), Put(pc, r, "body")} /\ UNCHANGED poolVars
    <3>1. rest /\ {"prefix", "body"} \subseteq PcSet
      BY <2>1, <2>3 DEF poolVars, readerVars, PcSet
    <3> QED
      BY <1>2, <2>1, <2>3, <3>1
  <2> QED
    BY <1>9, <2>2, <2>3 DEF PrefixTake
<1>10. CASE ReadPrefetched(r) \/ Drain(r) \/ CloseBegin(r) \/ Cancel(r)
  <2>1. rest /\ pc' = pc
    BY <1>10 DEF ReadPrefetched, Drain, CloseBegin, Cancel, poolVars, readerVars, leaseVars
  <2>2. OnlyForward
    BY <2>1 DEF OnlyForward, Unserved, Dialing
  <2> QED
    BY <2>1, <2>2, SealFrame DEF sealVars
<1>11. CASE ReadQueued(r)
  <2>1. rest /\ pc' = Put(pc, r, "body") /\ pc[r] # "done"
    BY <1>11 DEF ReadQueued, Readable, poolVars, readerVars
  <2> QED
    BY <1>2, <2>1 DEF PcSet
<1>12. CASE ReadBlock(r)
  BY <1>2, <1>12 DEF ReadBlock, Readable, poolVars, readerVars, leaseVars, PcSet
<1>13. ASSUME NEW reason, ReadAbort(r, reason) PROVE SealInv'
  <2>1. pc'[r] = "body" /\ UNCHANGED <<holder, nextConn>>
        /\ \A s \in Requests \ {r} : pc'[s] = pc[s] \/ (pc[s] = "parked" /\ pc'[s] = "acquire")
    BY <1>13, ReleaseFacts DEF ReadAbort, PcSet
  <2>2. OnlyForward
    BY <1>13, <2>1, ForwardMove DEF ReadAbort
  <2> QED
    BY <1>13, <2>1, <2>2, SealFrame DEF ReadAbort, sealVars, readerVars, leaseVars
<1>14. CASE CloseRelease(r) /\ ~Returns(r)
  <2>1. /\ pc[r] = "body" /\ ReleaseDiscard(r, "closing")
        /\ UNCHANGED <<reader, seen, released, pending, terminal, conn, observed, finished>>
    BY <1>14 DEF CloseRelease, readerVars
  <2>2. pc'[r] = "closing" /\ UNCHANGED <<holder, nextConn>>
        /\ \A s \in Requests \ {r} : pc'[s] = pc[s] \/ (pc[s] = "parked" /\ pc'[s] = "acquire")
    BY <2>1, ReleaseFacts DEF PcSet
  <2>3. OnlyForward
    BY <2>1, <2>2, ForwardMove
  <2> QED
    BY <2>1, <2>2, <2>3, SealFrame DEF sealVars
<1>15. CASE CancelRelease(r)
  <2>1. PICK S : pc' = WokenBy(S, Put(pc, r, pc[r]))
    BY <1>15 DEF CancelRelease, ReleaseDiscard
  <2>2. Put(pc, r, pc[r]) = pc
    BY DEF Put, TypeOK
  <2>3. \A s \in Requests : pc'[s] = pc[s] \/ (pc[s] = "parked" /\ pc'[s] = "acquire")
    BY <2>1, <2>2, WokenFacts DEF TypeOK
  <2>4. OnlyForward
    BY <2>3 DEF OnlyForward, Unserved, Dialing
  <2> QED
    BY <1>15, <2>4, SealFrame DEF CancelRelease, ReleaseDiscard, sealVars, readerVars, leaseVars
<1> QED
  BY <1>3, <1>4, <1>5, <1>6, <1>7, <1>8, <1>9, <1>10, <1>11, <1>12, <1>13, <1>14, <1>15,
     SealReuse, SealDial, SealDialDone, SealReturn, SealFinish DEF RequestStep


\* Only the receiver of a lease's connection can name the lease.
LEMMA NamedLease ==
  ASSUME TypeOK, SealInv, NEW c \in Conns, reader[c] = "got", LeaseFor(c) # None
  PROVE  /\ LeaseFor(c) \in Requests /\ conn[LeaseFor(c)] = c /\ ~Unserved(LeaseFor(c))
         /\ ~released[LeaseFor(c)] /\ ~terminal[LeaseFor(c)] /\ ~finished[LeaseFor(c)]
<1> DEFINE l == LeaseFor(c)
<1>1. l \in Requests /\ (seen[c] = l \/ holder[c] = l)
  BY DEF LeaseFor, TypeOK, Holders
<1> HIDE DEF l
<1>2. conn[l] = c /\ ~Unserved(l)
  BY <1>1 DEF SealInv, Given
<1>3. ~released[l]
  BY <1>1 DEF SealInv, Forgotten
<1>4. ~terminal[l]
  BY <1>1, <1>2, <1>3 DEF SealInv, Stays
<1>5. ~finished[l]
  BY <1>1, <1>2, <1>3 DEF SealInv, Sealed
<1> QED
  BY <1>1, <1>2, <1>3, <1>4, <1>5 DEF l

\* What a step of a receiver leaves alone.
otherVars == <<holder, conn, nextConn, released, finished>>

\* A receiver that stops disturbs nobody.
LEMMA SealExit ==
  ASSUME TypeOK, SealInv, NEW c \in Conns, reader[c] # "none", reader' = Put(reader, c, "exit"), seen' = Put(seen, c, None),
         UNCHANGED otherVars, UNCHANGED <<terminal, pending>>, OnlyForward, SealType'
  PROVE  SealInv'
<1>1. reader'[c] = "exit" /\ \A d \in Conns \ {c} : reader'[d] = reader[d]
  BY DEF TypeOK, Put
<1>2. seen'[c] = None /\ \A d \in Conns \ {c} : seen'[d] = seen[d]
  BY DEF TypeOK, Put
<1>3. None \notin Requests
  BY PoolAssumption
<1>4. Given'
  BY <1>2, <1>3 DEF SealInv, Given, otherVars, OnlyForward
<1>5. Stays'
  <2>1. \A s \in Requests : terminal[s] => conn[s] \in Conns
    BY DEF SealInv, Given
  <2> QED
    BY <1>1, <1>2, <2>1 DEF SealInv, Stays, otherVars
<1>6. Forgotten'
  BY <1>1, <1>2, <1>3 DEF SealInv, Forgotten, otherVars, OnlyForward
<1>7. Sealed'
  <2>1. \A s \in Requests : finished[s] => conn[s] \in Conns
    BY DEF SealInv, Given
  <2> QED
    BY <1>1, <2>1 DEF SealInv, Sealed, otherVars, OnlyForward
<1>8. Unread'
  <2>1. \A s \in Requests : Dialing(s)' => Dialing(s)
    BY DEF OnlyForward
  <2>2. \A s \in Requests : Dialing(s)' => conn[s] # c
    BY <2>1 DEF SealInv, Unread
  <2>3. \A d \in Conns : d >= nextConn => d # c
    BY DEF SealInv, Unread
  <2>4. \A s \in Requests : Dialing(s)' => reader'[conn[s]] = "none"
    <3> SUFFICES ASSUME NEW s \in Requests, Dialing(s)' PROVE reader'[conn[s]] = "none"
      OBVIOUS
    <3>1. reader[conn[s]] = "none" /\ conn[s] # c
      BY <2>1, <2>2 DEF SealInv, Unread
    <3> QED
      BY <3>1 DEF Put, TypeOK
  <2> QED
    BY <1>1, <2>3, <2>4 DEF SealInv, Unread, otherVars
<1> QED
  BY <1>4, <1>5, <1>6, <1>7, <1>8 DEF SealInv

\* The steps between captures and deliveries.
LEMMA SealRead ==
  ASSUME TypeOK, LeaseInv, SealInv, NEW c \in Conns,
         \/ Capture(c) \/ ReadMessage(c) \/ ReadStray(c) \/ ReadFail(c)
  PROVE  SealInv'
<1>1. /\ UNCHANGED otherVars /\ UNCHANGED <<terminal, pending, observed, pc>>
      /\ \/ reader[c] = "top" /\ reader' = Put(reader, c, "reading") /\ seen' = Put(seen, c, holder[c])
         \/ reader[c] = "reading" /\ reader' = Put(reader, c, "got") /\ seen' = seen
  BY DEF Capture, ReadMessage, ReadStray, ReadFail, otherVars, poolVars, leaseVars, reqVars
<1>2. reader[c] \in {"top", "reading"} /\ reader'[c] \in {"reading", "got"} /\ \A d \in Conns \ {c} : reader'[d] = reader[d]
  BY <1>1 DEF TypeOK, Put
<1>3. seen'[c] \in {seen[c], holder[c]} /\ \A d \in Conns \ {c} : seen'[d] = seen[d]
  BY <1>1 DEF TypeOK, Put
<1>4. \A s \in Requests : reader[c] = "reading" /\ seen[c] = s => ~released[s]
  BY DEF SealInv, Forgotten
<1>5. \A s \in Requests : seen'[c] = s => ~released[s]
  <2>1. CASE reader[c] = "top"
    <3>1. seen'[c] = holder[c]
      BY <1>1, <2>1 DEF TypeOK, Put
    <3> QED
      BY <3>1 DEF SealInv, Forgotten
  <2>2. CASE reader[c] = "reading"
    <3>1. seen' = seen
      BY <1>1, <2>2
    <3> QED
      BY <1>4, <2>2, <3>1
  <2> QED
    BY <1>2, <2>1, <2>2
<1>6. Given'
  BY <1>1, <1>3 DEF SealInv, Given, otherVars, Unserved
<1>7. Stays'
  <2>1. \A s \in Requests : terminal[s] => conn[s] \in Conns
    BY DEF SealInv, Given
  <2> QED
    BY <1>1, <1>2, <1>3, <2>1 DEF SealInv, Stays, otherVars
<1>8. Forgotten'
  BY <1>1, <1>2, <1>3, <1>5 DEF SealInv, Forgotten, otherVars
<1>9. Sealed'
  <2>1. \A s \in Requests : finished[s] => conn[s] \in Conns
    BY DEF SealInv, Given
  <2> QED
    BY <1>1, <1>2, <2>1 DEF SealInv, Sealed, otherVars
<1>10. Unread'
  <2>1. \A s \in Requests : Dialing(s) => reader'[conn[s]] = "none"
    <3> SUFFICES ASSUME NEW s \in Requests, Dialing(s) PROVE reader'[conn[s]] = "none"
      OBVIOUS
    <3>1. reader[conn[s]] = "none"
      BY DEF SealInv, Unread
    <3>2. conn[s] # c /\ conn[s] \in Conns
      BY <1>2, <3>1 DEF LeaseInv, Engaged, Owns
    <3> QED
      BY <1>2, <3>1, <3>2
  <2>2. \A d \in Conns : d >= nextConn => d # c
    BY <1>2 DEF SealInv, Unread
  <2> QED
    BY <1>1, <1>2, <2>1, <2>2 DEF SealInv, Unread, otherVars, Dialing
<1> QED
  BY <1>1, <1>6, <1>7, <1>8, <1>9, <1>10 DEF SealInv, SealType, otherVars


\* A message admitted to the lease: an end keeps the receiver with it.
LEMMA SealAdmit ==
  ASSUME TypeOK, LeaseInv, SealInv, NEW c \in Conns, Admit(c)
  PROVE  SealInv'
<1> DEFINE l == LeaseFor(c)
<1>1. reader[c] = "got" /\ UNCHANGED otherVars
  BY DEF Admit, otherVars, leaseVars
<1>2. OnlyForward
  <2>1. pc' = pc \/ pc' = WokenBy({c}, pc)
    BY DEF Admit
  <2>2. \A s \in Requests : pc'[s] = pc[s] \/ (pc[s] = "parked" /\ pc'[s] = "acquire")
    BY <2>1, WokenFacts DEF TypeOK
  <2> QED
    BY <2>2 DEF OnlyForward, Unserved, Dialing
<1>3. observed' = observed \/ (l \in Requests /\ observed' = Put(observed, l, observed[l] + 1))
  BY <1>1, NamedLease DEF Admit
<1>4. observed' \in [Requests -> Nat]
  BY <1>3 DEF SealInv, SealType, Put
<1>5. CASE ReceiverExits(c) /\ UNCHANGED leaseVars
  <2>1. SealType'
    BY <1>1, <1>4, <1>5 DEF SealInv, SealType, leaseVars, otherVars
  <2> QED
    BY <1>1, <1>2, <1>5, <2>1, SealExit DEF ReceiverExits, leaseVars
<1>6. CASE /\ l # None /\ terminal' = Put(terminal, l, terminal[l] \/ Ends(hand[c].kind))
           /\ seen' = Put(seen, c, l) /\ Enqueue(c, l, hand[c])
  <2>1. /\ l \in Requests /\ conn[l] = c /\ ~Unserved(l)
        /\ ~released[l] /\ ~terminal[l] /\ ~finished[l]
    BY <1>1, <1>6, NamedLease
  <2> HIDE DEF l
  <2>2. /\ terminal' \in [Requests -> BOOLEAN]
        /\ \A s \in Requests \ {l} : terminal'[s] = terminal[s]
    BY <1>6, <2>1 DEF SealInv, SealType, Put, Ends
  <2>3. /\ pending' \in [Requests -> BOOLEAN]
        /\ \A s \in Requests : pending[s] => pending'[s]
        /\ \/ reader' = Put(reader, c, AfterDelivery(terminal'[l]))
           \/ reader' = Put(reader, c, "reserve") /\ pending'[l]
    <3>1. CASE UNCHANGED pending /\ reader' = Put(reader, c, AfterDelivery(terminal'[l]))
      BY <3>1 DEF SealInv, SealType
    <3>2. CASE pending' = Put(pending, l, TRUE) /\ reader' = Put(reader, c, "reserve")
      BY <2>1, <3>2 DEF SealInv, SealType, Put
    <3> QED
      BY <1>6, <3>1, <3>2 DEF Enqueue
  <2>4. /\ \A d \in Conns \ {c} : reader'[d] = reader[d]
        /\ \/ reader'[c] = "wait" \/ (reader'[c] = "top" /\ ~terminal'[l])
           \/ (reader'[c] = "reserve" /\ pending'[l])
    BY <2>3 DEF TypeOK, Put, AfterDelivery
  <2>5. seen'[c] = l /\ \A d \in Conns \ {c} : seen'[d] = seen[d]
    BY <1>6 DEF TypeOK, Put
  <2>6. \A s \in Requests \ {l} : terminal[s] => conn[s] \in Conns /\ ~Unserved(s)
    BY DEF SealInv, Given
  <2>7. Given'
    <3>1. \A d \in Conns, s \in Requests : holder'[d] = s \/ seen'[d] = s => conn'[s] = d /\ ~Unserved(s)'
      BY <1>1, <1>2, <2>1, <2>5 DEF SealInv, Given, otherVars, OnlyForward
    <3>2. \A s \in Requests : terminal'[s] \/ released'[s] \/ finished'[s] => conn'[s] \in Conns /\ ~Unserved(s)'
      BY <1>1, <1>2, <2>1, <2>2 DEF SealInv, Given, otherVars, OnlyForward
    <3> QED
      BY <3>1, <3>2 DEF Given
  <2>8. Stays'
    <3>1. \A s \in Requests \ {l} : terminal'[s] /\ ~released'[s] =>
            \/ reader'[conn'[s]] = "exit"
            \/ seen'[conn'[s]] = s /\ reader'[conn'[s]] \in {"wait", "reserve", "settle"}
      <4> SUFFICES ASSUME NEW s \in Requests \ {l}, terminal'[s], ~released'[s]
                   PROVE  \/ reader'[conn'[s]] = "exit"
                          \/ seen'[conn'[s]] = s /\ reader'[conn'[s]] \in {"wait", "reserve", "settle"}
        OBVIOUS
      <4>1. /\ conn'[s] = conn[s] /\ conn[s] \in Conns
            /\ \/ reader[conn[s]] = "exit"
               \/ seen[conn[s]] = s /\ reader[conn[s]] \in {"wait", "reserve", "settle"}
        BY <1>1, <2>2, <2>6 DEF SealInv, Stays, otherVars
      <4> QED
        BY <1>1, <2>4, <2>5, <4>1
    <3>2. terminal'[l] => seen'[conn'[l]] = l /\ reader'[conn'[l]] \in {"wait", "reserve", "settle"}
      BY <1>1, <2>1, <2>4, <2>5 DEF otherVars
    <3>3. \A d \in Conns : reader'[d] \in {"reserve", "settle"} => seen'[d] \in Requests /\ pending'[seen'[d]]
      BY <2>1, <2>3, <2>4, <2>5 DEF SealInv, Stays
    <3>4. \A d \in Conns : reader'[d] = "wait" => seen'[d] \in Requests
      BY <2>1, <2>4, <2>5 DEF SealInv, Stays
    <3> QED
      BY <3>1, <3>2, <3>3, <3>4 DEF Stays
  <2>9. Forgotten'
    BY <1>1, <1>2, <2>1, <2>4, <2>5 DEF SealInv, Forgotten, otherVars, OnlyForward
  <2>10. Sealed'
    <3>1. \A s \in Requests : finished[s] => conn[s] \in Conns
      BY DEF SealInv, Given
    <3> QED
      BY <1>1, <1>2, <2>4, <3>1 DEF SealInv, Sealed, otherVars, OnlyForward
  <2>11. Unread'
    <3>1. \A s \in Requests : Dialing(s)' => Dialing(s) /\ conn[s] # c /\ conn[s] \in Conns
      BY <1>1, <1>2 DEF SealInv, Unread, LeaseInv, Engaged, Owns, OnlyForward
    <3>2. \A d \in Conns : d >= nextConn => d # c
      BY <1>1 DEF SealInv, Unread
    <3> QED
      BY <1>1, <2>4, <3>1, <3>2 DEF SealInv, Unread, otherVars
  <2> QED
    BY <1>1, <1>4, <2>2, <2>3, <2>7, <2>8, <2>9, <2>10, <2>11 DEF SealInv, SealType, otherVars
<1> QED
  BY <1>5, <1>6 DEF Admit

\* A reserved delivery, and the wait for the release.
LEMMA SealSettle ==
  ASSUME TypeOK, LeaseInv, SealInv, NEW c \in Conns, DeliverReserved(c) \/ SettleReserved(c) \/ AwaitRelease(c)
  PROVE  SealInv'
<1>1. reader[c] \in {"reserve", "settle", "wait"} /\ UNCHANGED otherVars /\ UNCHANGED <<terminal, observed, pc>>
  BY DEF DeliverReserved, SettleReserved, AwaitRelease, otherVars, poolVars, reqVars, leaseVars
<1>2. OnlyForward
  BY <1>1 DEF OnlyForward, Unserved, Dialing
<1>3. CASE ReceiverExits(c) /\ UNCHANGED pending
  <2>1. SealType'
    BY <1>1, <1>3 DEF SealInv, SealType, otherVars
  <2> QED
    BY <1>1, <1>2, <1>3, <2>1, SealExit DEF ReceiverExits
<1>4. PICK l : l = seen[c]
  OBVIOUS
<1>5. l \in Requests /\ conn[l] = c
  BY <1>1, <1>4 DEF SealInv, Stays, Given
<1>6. CASE /\ seen' = seen
           /\ \/ reader[c] = "reserve" /\ reader' = Put(reader, c, "settle") /\ pending' = pending
              \/ /\ reader[c] = "settle" /\ reader' = Put(reader, c, AfterDelivery(terminal[l]))
                 /\ pending' = Put(pending, l, FALSE)
              \/ reader[c] = "wait" /\ released[l] /\ reader' = Put(reader, c, "top") /\ pending' = pending
  <2>1. /\ \A d \in Conns \ {c} : reader'[d] = reader[d]
        /\ \/ reader[c] = "reserve" /\ reader'[c] = "settle" /\ pending' = pending
           \/ reader[c] = "settle" /\ reader'[c] = IF terminal[l] THEN "wait" ELSE "top"
           \/ reader[c] = "wait" /\ released[l] /\ reader'[c] = "top"
    BY <1>6 DEF TypeOK, Put, AfterDelivery
  <2>2. /\ pending' \in [Requests -> BOOLEAN] /\ \A s \in Requests \ {l} : pending'[s] = pending[s]
        /\ (reader[c] # "settle" => pending' = pending)
    <3>1. CASE pending' = pending
      BY <3>1 DEF SealInv, SealType
    <3>2. CASE pending' = Put(pending, l, FALSE) /\ reader[c] = "settle"
      BY <1>5, <3>2 DEF SealInv, SealType, Put
    <3> QED
      BY <1>6, <3>1, <3>2
  <2>3. Given'
    BY <1>1, <1>6 DEF SealInv, Given, otherVars, Unserved
  <2>4. Stays'
    <3>1. \A s \in Requests : terminal'[s] /\ ~released'[s] =>
            \/ reader'[conn'[s]] = "exit"
            \/ seen'[conn'[s]] = s /\ reader'[conn'[s]] \in {"wait", "reserve", "settle"}
      <4> SUFFICES ASSUME NEW s \in Requests, terminal'[s], ~released'[s]
                   PROVE  \/ reader'[conn'[s]] = "exit"
                          \/ seen'[conn'[s]] = s /\ reader'[conn'[s]] \in {"wait", "reserve", "settle"}
        OBVIOUS
      <4>1. /\ conn'[s] = conn[s] /\ conn[s] \in Conns /\ seen'[conn[s]] = seen[conn[s]] /\ terminal[s] /\ ~released[s]
            /\ \/ reader[conn[s]] = "exit"
               \/ seen[conn[s]] = s /\ reader[conn[s]] \in {"wait", "reserve", "settle"}
        BY <1>1, <1>6 DEF SealInv, Given, Stays, otherVars
      <4>2. CASE conn[s] # c
        BY <2>1, <4>1, <4>2
      <4>3. CASE conn[s] = c
        BY <1>1, <1>4, <2>1, <4>1, <4>3
      <4> QED
        BY <4>2, <4>3
    <3>2. \A d \in Conns : reader'[d] \in {"reserve", "settle"} => seen'[d] \in Requests /\ pending'[seen'[d]]
      <4> SUFFICES ASSUME NEW d \in Conns, reader'[d] \in {"reserve", "settle"}
                   PROVE  seen[d] \in Requests /\ pending'[seen[d]]
        BY <1>6
      <4>1. reader[d] \in {"reserve", "settle"} /\ (d = c => reader[c] = "reserve")
        BY <2>1
      <4>2. seen[d] \in Requests /\ pending[seen[d]] /\ (d # c => seen[d] # l)
        BY <1>4, <1>5, <4>1 DEF SealInv, Stays, Given
      <4> QED
        BY <2>2, <4>1, <4>2
    <3>3. \A d \in Conns : reader'[d] = "wait" => seen'[d] \in Requests
      BY <1>4, <1>5, <1>6, <2>1 DEF SealInv, Stays
    <3> QED
      BY <3>1, <3>2, <3>3 DEF Stays
  <2>5. Forgotten'
    <3>1. reader[c] = "settle" \/ reader[c] = "reserve" => ~released[l]
      BY <1>4, <1>5 DEF SealInv, Forgotten
    <3> QED
      BY <1>1, <1>4, <1>6, <2>1, <3>1 DEF SealInv, Forgotten, otherVars
  <2>6. Sealed'
    <3>1. \A s \in Requests : finished[s] => conn[s] \in Conns
      BY DEF SealInv, Given
    <3> QED
      BY <1>1, <2>1, <3>1 DEF SealInv, Sealed, otherVars
  <2>7. Unread'
    <3>1. \A s \in Requests : Dialing(s)' => Dialing(s) /\ conn[s] # c /\ conn[s] \in Conns
      BY <1>1, <1>2 DEF SealInv, Unread, LeaseInv, Engaged, Owns, OnlyForward
    <3>2. \A d \in Conns : d >= nextConn => d # c
      BY <1>1 DEF SealInv, Unread
    <3> QED
      BY <1>1, <2>1, <3>1, <3>2 DEF SealInv, Unread, otherVars
  <2> QED
    BY <1>1, <2>2, <2>3, <2>4, <2>5, <2>6, <2>7 DEF SealInv, SealType, otherVars
<1>7. CASE DeliverReserved(c)
  BY <1>3, <1>6, <1>7 DEF DeliverReserved
<1>8. CASE SettleReserved(c)
  BY <1>4, <1>6, <1>8 DEF SettleReserved
<1>9. CASE AwaitRelease(c)
  BY <1>3, <1>4, <1>6, <1>9 DEF AwaitRelease, leaseVars
<1> QED
  BY <1>7, <1>8, <1>9

\* Every step keeps the receivers where the captures expect them.
LEMMA SealStep == TypeOK /\ LeaseInv /\ SealInv /\ [Next]_vars => SealInv'
<1> SUFFICES ASSUME TypeOK, LeaseInv, SealInv, [Next]_vars PROVE SealInv'
  OBVIOUS
<1>1. ASSUME UNCHANGED sealVars, pc' = pc \/ pc' = Woken(pc) PROVE SealInv'
  <2>1. \A s \in Requests : pc'[s] = pc[s] \/ (pc[s] = "parked" /\ pc'[s] = "acquire")
    BY <1>1, WokenFacts DEF TypeOK
  <2>2. OnlyForward
    BY <2>1 DEF OnlyForward, Unserved, Dialing
  <2> QED
    BY <1>1, <2>2, SealFrame
<1>2. ASSUME NEW c \in Conns, IdleTimerFires(c) \/ IdleTimerRuns(c) PROVE SealInv'
  BY <1>1, <1>2 DEF IdleTimerFires, IdleTimerRuns, WokenBy, sealVars, readerVars, leaseVars, reqVars
<1>3. CASE Age
  BY <1>1, <1>3 DEF Age, sealVars, readerVars, leaseVars, reqVars
<1>4. CASE ClosePool
  BY <1>1, <1>4 DEF ClosePool, sealVars, readerVars, leaseVars
<1>5. CASE UNCHANGED vars
  BY <1>1, <1>5 DEF vars, sealVars, poolVars, readerVars, leaseVars, reqVars
<1> QED
  BY <1>2, <1>3, <1>4, <1>5, SealRequest, SealRead, SealAdmit, SealSettle DEF Next, ReceiverStep

\* At the start there is no lease and no receiver.
LEMMA SealInit == Init => SealInv
<1> SUFFICES ASSUME Init PROVE SealInv
  OBVIOUS
<1>1. SealType
  BY DEF Init, SealType
<1>2. \A r \in Requests : ~terminal[r] /\ ~released[r] /\ ~finished[r] /\ pc[r] = "acquire"
  BY DEF Init
<1>3. \A c \in Conns : holder[c] = None /\ seen[c] = None /\ reader[c] = "none"
  BY DEF Init
<1>4. None \notin Requests
  BY PoolAssumption
<1> QED
  BY <1>1, <1>2, <1>3, <1>4 DEF SealInv, Given, Stays, Forgotten, Sealed, Unread, Dialing

\* The receivers are where the captures expect them in every reachable state.
THEOREM ReceiversAreKnown == Spec => []SealInv
<1>1. Init => SealInv
  BY SealInit
<1>2. TypeOK /\ LeaseInv /\ SealInv /\ [Next]_vars => SealInv'
  BY SealStep
<1> QED
  BY <1>1, <1>2, PoolIsSound, PTL DEF Spec

Quiet == \A r \in Requests : finished[r] => observed'[r] = observed[r]

\* After the capture of a request is finished its receiver records nothing more
\* for it.
THEOREM CapturesAreSealed == Spec => CaptureSealed
<1>1. ASSUME TypeOK, SealInv, Next PROVE Quiet
  <2>1. CASE observed' = observed
    BY <2>1 DEF Quiet
  <2>2. ASSUME NEW c \in Conns, Admit(c) PROVE Quiet
    <3>1. \/ observed' = observed
          \/ LeaseFor(c) # None /\ observed' = Put(observed, LeaseFor(c), observed[LeaseFor(c)] + 1)
      BY <2>2 DEF Admit
    <3>2. CASE LeaseFor(c) # None
      <4>1. reader[c] = "got"
        BY <2>2 DEF Admit
      <4>2. PICK l : l = LeaseFor(c)
        OBVIOUS
      <4>3. ~finished[l] /\ (observed' = observed \/ observed' = Put(observed, l, observed[l] + 1))
        BY <1>1, <3>1, <3>2, <4>1, <4>2, NamedLease
      <4>4. \A s \in Requests : s # l => observed'[s] = observed[s]
        BY <1>1, <4>3 DEF Put, SealInv, SealType
      <4> QED
        BY <4>3, <4>4 DEF Quiet
    <3> QED
      BY <2>1, <3>1, <3>2
  <2>3. ASSUME NEW r \in Requests, RequestStep(r) PROVE observed' = observed
    BY <2>3 DEF RequestStep, AcquireReuse, AcquireDial, AcquirePark, AcquireAbort, DialFail, DialAfterClose, DialDone,
       WriteCreate, WriteFail, PrefixBlock, PrefixFail, PrefixTake, ReadPrefetched, ReadQueued, ReadBlock, Drain,
       ReadAbort, CloseBegin, CloseRelease, FinishCapture, Cancel, CancelRelease
  <2> QED
    BY <1>1, <2>1, <2>2, <2>3 DEF Next, ReceiverStep, Capture, ReadMessage, ReadStray, ReadFail, DeliverReserved,
       SettleReserved, AwaitRelease, IdleTimerFires, IdleTimerRuns, Age, ClosePool, reqVars
<1>2. TypeOK /\ SealInv /\ [Next]_vars => [Quiet]_vars
  BY <1>1
<1>3. CaptureSealed <=> [][Quiet]_vars
  BY DEF CaptureSealed, Quiet
<1> QED
  BY <1>2, <1>3, PoolIsSound, ReceiversAreKnown, PTL DEF Spec


-----------------------------------------------------------------------------
(* Responses reach their own request, in order.                            *)

OrderType ==
  /\ queue \in [Requests -> Seq(Msgs)] /\ delivered \in [Requests -> Seq(Msgs)]
  /\ hand \in [Conns -> Msgs \cup {ReadFailure, Nothing}]
  /\ serving \in [Conns -> SUBSET Requests] /\ sent \in [Requests -> Nat]
  /\ consumed \in [Requests -> Nat] /\ readErr \in [Requests -> BOOLEAN]

\* The request has not written its response.create.
Early(r) == Unserved(r) \/ pc[r] = "write"

\* A request keeps its connection, pooled or not, while it works with it, and a
\* pooled connection that is not busy is nobody's.
Held ==
  /\ \A r \in Requests : Leasing(r) => holder[conn[r]] = r
  /\ \A c \in entries : ~busy[c] => holder[c] = None

\* The provider answers, and the receiver carries, messages of the holder only.
Attributed ==
  /\ \A c \in Conns : \A r \in serving[c] : holder[c] = r /\ ~Early(r)
  /\ \A c \in Conns : hand[c].owner # None => holder[c] = hand[c].owner /\ reader[c] \in {"got", "reserve"}
  /\ \A c \in Conns : reader[c] = "reserve" => hand[c].owner \in {seen[c], None} /\ hand[c] \in Msgs
  /\ \A c \in Conns : reader[c] = "got" => hand[c] \in Msgs \cup {ReadFailure}
  /\ \A r \in Requests : Len(queue[r]) <= 1 /\ (queue[r] # <<>> => queue[r][1].owner \in {r, None})

\* The queue holds a message of r's own response.
Queued(r) == queue[r] # <<>> /\ queue[r][1].owner = r

\* Nothing precedes response.create, and only ancillary messages the first event.
Fresh ==
  \A r \in Requests :
    /\ Early(r) => /\ sent[r] = 0 /\ delivered[r] = <<>> /\ ~Queued(r)
                   /\ \A c \in Conns : hand[c].owner # r
    /\ pc[r] \in {"prefix", "prefixBlocked"} => \A i \in DOMAIN delivered[r] : delivered[r][i].kind = "ancillary"

\* A body that was read without an error has not read an error event.
ReadInv ==
  \A r \in Requests :
    /\ consumed[r] <= Len(delivered[r])
    /\ pc[r] = "bodyBlocked" => consumed[r] = Len(delivered[r])
    /\ pc[r] \in {"body", "bodyBlocked"} /\ consumed[r] > 0 /\ ~readErr[r] =>
         delivered[r][consumed[r]].kind # "error"

\* The provider is done with the response.
Over(r) == \A c \in Conns : r \notin serving[c]

\* A completed response is over.
Ended ==
  /\ \A r \in Requests : \A i \in DOMAIN delivered[r] :
       delivered[r][i].kind = "terminal" => delivered[r][i].owner = r /\ Over(r)
  /\ \A r \in Requests : \A i \in DOMAIN queue[r] :
       queue[r][i].kind = "terminal" => queue[r][i].owner = r /\ Over(r)
  /\ \A c \in Conns : hand[c].kind = "terminal" => hand[c].owner \in Requests /\ Over(hand[c].owner)

Own(r, s, i) == i \in DOMAIN s /\ s[i].owner = r

\* The messages of r's response in s are 1, 2, .., g; the others are strays.
InOrder(r, s, g) ==
  /\ \A i \in DOMAIN s : s[i].owner \in {r, None}
  /\ \A i \in DOMAIN s : Own(r, s, i) => s[i].n \in 1..g
  /\ \A i, j \in DOMAIN s : Own(r, s, i) /\ Own(r, s, j) /\ i < j => s[i].n < s[j].n
  /\ \A i \in DOMAIN s : Own(r, s, i) => \A k \in 1..s[i].n : \E j \in 1..i : Own(r, s, j) /\ s[j].n = k
  /\ \A k \in 1..g : \E j \in DOMAIN s : Own(r, s, j) /\ s[j].n = k

\* The number of messages of r's response that have reached its lease.
Reached(r, g) == IF Queued(r) THEN g[r] + 1 ELSE g[r]

\* With g messages of each response handed over, the next one is queued, the one
\* after that is in the receiver's hand, and nothing is lost before it exits.
Numbered(g) ==
  /\ \A r \in Requests : InOrder(r, delivered[r], g[r])
  /\ \A r \in Requests : Queued(r) => queue[r][1].n = g[r] + 1
  /\ \A r \in Requests : Reached(r, g) <= sent[r]
  /\ \A c \in Conns, r \in Requests : hand[c].owner = r => hand[c].n = Reached(r, g) + 1 /\ sent[r] = hand[c].n
  /\ \A r \in Requests : \/ sent[r] = Reached(r, g)
                         \/ \E c \in Conns : hand[c].owner = r
                         \/ \E c \in Conns : conn[r] = c /\ reader[c] = "exit"

(* OwnResponseInOrder is about what the caller was handed; what it will be *)
(* handed is still in the queue, in the receiver's hand or on the wire,    *)
(* and a connection must be empty of one response before the next begins.  *)
CarryInv == OrderType /\ Held /\ Attributed /\ Fresh /\ ReadInv /\ Ended
OrderInv == CarryInv /\ \E g \in [Requests -> Nat] : Numbered(g)


carried == <<queue, delivered, hand, serving, sent, consumed, conn, holder, busy, reader, seen>>

\* A step that carries no message and leases nothing.
LEMMA CarryFrame ==
  ASSUME CarryInv, UNCHANGED carried, entries' \subseteq entries, readErr' \in [Requests -> BOOLEAN],
         \A s \in Requests :
           /\ (Leasing(s)' => Leasing(s)) /\ (Early(s)' => Early(s))
           /\ (pc'[s] \in {"prefix", "prefixBlocked"} => pc[s] \in {"prefix", "prefixBlocked"})
           /\ (pc'[s] \in {"body", "bodyBlocked"} /\ ~readErr'[s] =>
                 pc[s] \in {"body", "bodyBlocked"} /\ ~readErr[s])
           /\ (pc'[s] = "bodyBlocked" => pc[s] = "bodyBlocked" \/ consumed[s] = Len(delivered[s]))
  PROVE  CarryInv'
<1>1. OrderType'
  <2>1. UNCHANGED <<queue, delivered, hand, serving, sent, consumed>>
    BY DEF carried
  <2> QED
    BY <2>1, Zenon DEF CarryInv, OrderType
<1>2. Held'
  BY DEF CarryInv, Held, carried
<1>3. Attributed'
  <2>1. \A c \in Conns : serving[c] \subseteq Requests
    BY DEF CarryInv, OrderType
  <2> QED
    BY <2>1 DEF CarryInv, Attributed, carried
<1>4. Fresh'
  BY DEF CarryInv, Fresh, Queued, carried
<1>5. ReadInv'
  BY DEF CarryInv, ReadInv, carried
<1>6. Ended'
  BY DEF CarryInv, Ended, Over, carried
<1> QED
  BY <1>1, <1>2, <1>3, <1>4, <1>5, <1>6 DEF CarryInv

\* One request steps aside or on, the others wake up.
LEMMA CarryMove ==
  ASSUME TypeOK, CarryInv, UNCHANGED carried, entries' \subseteq entries, readErr' \in [Requests -> BOOLEAN],
         NEW r \in Requests,
         \A s \in Requests \ {r} : readErr'[s] = readErr[s] /\ (pc'[s] = pc[s] \/ (pc[s] = "parked" /\ pc'[s] = "acquire")),
         \/ pc'[r] \in {"failing", "closing", "done"}
         \/ pc[r] \in {"acquire", "parked"} /\ pc'[r] \in {"acquire", "parked"}
         \/ pc'[r] = pc[r] /\ readErr'[r] = readErr[r]
         \/ pc[r] \in {"prefix", "prefixBlocked"} /\ pc'[r] \in {"prefix", "prefixBlocked"}
         \/ pc[r] = "bodyBlocked" /\ pc'[r] = "body" /\ readErr'[r]
         \/ pc[r] = "body" /\ pc'[r] = "bodyBlocked" /\ readErr'[r] = readErr[r] /\ consumed[r] = Len(delivered[r])
  PROVE  CarryInv'
<1>1. \A s \in Requests : (Leasing(s)' => Leasing(s)) /\ (Early(s)' => Early(s))
  BY DEF Leasing, Early, Unserved
<1>2. \A s \in Requests : pc'[s] \in {"prefix", "prefixBlocked"} => pc[s] \in {"prefix", "prefixBlocked"}
  OBVIOUS
<1>3. \A s \in Requests : pc'[s] \in {"body", "bodyBlocked"} /\ ~readErr'[s] =>
                             pc[s] \in {"body", "bodyBlocked"} /\ ~readErr[s]
  OBVIOUS
<1>4. \A s \in Requests : pc'[s] = "bodyBlocked" => pc[s] = "bodyBlocked" \/ consumed[s] = Len(delivered[s])
  OBVIOUS
<1> QED
  BY <1>1, <1>2, <1>3, <1>4, CarryFrame


\* A pooled connection that is not busy carries nothing.
LEMMA IdleIsEmpty ==
  ASSUME CarryInv, NEW c \in Conns, holder[c] = None
  PROVE  serving[c] = {} /\ hand[c].owner = None
<1>1. serving[c] \subseteq Requests
  BY DEF CarryInv, OrderType
<1> QED
  BY <1>1, PoolAssumption DEF CarryInv, Attributed

\* A pooled connection changes hands only when it is empty.
LEMMA CarryReuse ==
  ASSUME TypeOK, LeaseInv, CarryInv, NEW r \in Requests, AcquireReuse(r)
  PROVE  CarryInv'
<1>1. PICK c \in Match(r), S \in SUBSET Stale :
        /\ entries' = entries \ S /\ busy' = Put(busy, c, TRUE) /\ holder' = Put(holder, c, r)
        /\ conn' = Put(conn, r, c) /\ pc' = WokenBy(S, Put(pc, r, "write"))
  BY DEF AcquireReuse
<1>2. /\ pc[r] = "acquire"
      /\ UNCHANGED <<queue, delivered, hand, serving, sent, consumed, readErr, reader, seen>>
  BY DEF AcquireReuse, readerVars, leaseVars, wireVars, bodyVars
<1>3. c \in Conns /\ holder[c] = None
  BY DEF Match, Idle, TypeOK, CarryInv, Held
<1>4. "write" \in PcSet \ {"parked"}
  BY DEF PcSet
<1>5. /\ pc'[r] = "write"
      /\ \A s \in Requests \ {r} : pc'[s] = pc[s] \/ (pc[s] = "parked" /\ pc'[s] = "acquire")
  BY <1>1, <1>4, WokenMove DEF TypeOK
<1>6. conn'[r] = c /\ \A s \in Requests \ {r} : conn'[s] = conn[s]
  BY <1>1 DEF TypeOK, Put
<1>7. /\ holder'[c] = r /\ busy'[c]
      /\ \A d \in Conns \ {c} : holder'[d] = holder[d] /\ busy'[d] = busy[d]
  BY <1>1, <1>3 DEF TypeOK, Put
<1>8. \A s \in Requests : Early(s)' => Early(s)
  BY <1>2, <1>5 DEF Early, Unserved
<1>9. serving[c] = {} /\ hand[c].owner = None /\ None \notin Requests
  BY <1>3, IdleIsEmpty, PoolAssumption
<1>10. \A d \in Conns : serving[d] \subseteq Requests
  BY DEF CarryInv, OrderType
<1>11. OrderType'
  BY <1>2, Zenon DEF CarryInv, OrderType
<1>12. Held'
  <2>1. \A s \in Requests \ {r} : Leasing(s)' => Leasing(s)
    BY <1>5 DEF Leasing
  <2>2. \A s \in Requests \ {r} : Leasing(s) => conn[s] \in Conns /\ conn[s] # c
    BY <1>3, <1>9 DEF CarryInv, Held, LeaseInv, Engaged, Owns
  <2>3. \A s \in Requests : Leasing(s)' => holder'[conn'[s]] = s
    BY <1>6, <1>7, <2>1, <2>2 DEF CarryInv, Held
  <2>4. \A d \in entries' : d \in entries /\ d \in Conns
    BY <1>1 DEF TypeOK
  <2> QED
    BY <1>7, <2>3, <2>4 DEF CarryInv, Held
<1>13. Attributed'
  BY <1>2, <1>7, <1>8, <1>9, <1>10 DEF CarryInv, Attributed
<1>14. Fresh'
  BY <1>2, <1>5, <1>8 DEF CarryInv, Fresh, Queued
<1>15. ReadInv'
  BY <1>2, <1>5 DEF CarryInv, ReadInv
<1>16. Ended'
  BY <1>2 DEF CarryInv, Ended, Over
<1> QED
  BY <1>11, <1>12, <1>13, <1>14, <1>15, <1>16 DEF CarryInv

\* A new connection is busy before it is leased.
LEMMA CarryDial ==
  ASSUME TypeOK, LeaseInv, CarryInv, NEW r \in Requests, AcquireDial(r)
  PROVE  CarryInv'
<1>1. \E S : pc' = WokenBy(S, Put(pc, r, "dialing"))
  BY DEF AcquireDial
<1>2. /\ pc[r] = "acquire" /\ conn' = Put(conn, r, nextConn) /\ busy' = Put(busy, nextConn, TRUE)
      /\ entries' \subseteq entries \cup {nextConn}
      /\ UNCHANGED <<queue, delivered, hand, serving, sent, consumed, readErr, reader, seen, holder>>
  BY DEF AcquireDial, readerVars, leaseVars, wireVars, bodyVars
<1>3. nextConn \in Conns
  BY PoolAssumption DEF AcquireDial, Conns, TypeOK
<1>4. "dialing" \in PcSet \ {"parked"}
  BY DEF PcSet
<1>5. /\ pc'[r] = "dialing"
      /\ \A s \in Requests \ {r} : pc'[s] = pc[s] \/ (pc[s] = "parked" /\ pc'[s] = "acquire")
  BY <1>1, <1>4, WokenMove DEF TypeOK
<1>6. \A s \in Requests \ {r} : conn'[s] = conn[s]
  BY <1>2 DEF TypeOK, Put
<1>7. busy'[nextConn] /\ \A d \in Conns \ {nextConn} : busy'[d] = busy[d]
  BY <1>2, <1>3 DEF TypeOK, Put
<1>8. \A s \in Requests : (Early(s)' => Early(s)) /\ (Leasing(s)' => s # r /\ Leasing(s))
  BY <1>2, <1>5 DEF Early, Unserved, Leasing
<1>9. \A d \in Conns : serving[d] \subseteq Requests
  BY DEF CarryInv, OrderType
<1>10. OrderType'
  BY <1>2, Zenon DEF CarryInv, OrderType
<1>11. Held'
  <2>1. \A d \in entries' : d = nextConn \/ (d \in entries /\ d \in Conns)
    BY <1>2 DEF TypeOK
  <2> QED
    BY <1>2, <1>6, <1>7, <1>8, <2>1 DEF CarryInv, Held
<1>12. Attributed'
  BY <1>2, <1>8, <1>9 DEF CarryInv, Attributed
<1>13. Fresh'
  BY <1>2, <1>5, <1>8 DEF CarryInv, Fresh, Queued
<1>14. ReadInv'
  BY <1>2, <1>5 DEF CarryInv, ReadInv
<1>15. Ended'
  BY <1>2 DEF CarryInv, Ended, Over
<1> QED
  BY <1>10, <1>11, <1>12, <1>13, <1>14, <1>15 DEF CarryInv

\* The first lease of a connection.
LEMMA CarryDialDone ==
  ASSUME TypeOK, LeaseInv, CarryInv, SealInv, NEW r \in Requests, DialDone(r)
  PROVE  CarryInv'
<1> DEFINE c == conn[r]
<1>1. /\ pc[r] = "dialing" /\ holder' = Put(holder, c, r) /\ reader' = Put(reader, c, "top")
      /\ pc' = Put(pc, r, "write")
      /\ UNCHANGED <<queue, delivered, hand, serving, sent, consumed, readErr, seen, conn, busy, entries>>
  BY DEF DialDone, leaseVars, wireVars, bodyVars
<1>2. c \in Conns /\ holder[c] = None /\ (c \in entries => busy[c])
  BY <1>1 DEF LeaseInv, Engaged, Owns, Dialing, Alive
<1>3. serving[c] = {} /\ hand[c].owner = None /\ None \notin Requests
  BY <1>2, IdleIsEmpty, PoolAssumption
<1>4. reader'[c] = "top" /\ \A d \in Conns \ {c} : reader'[d] = reader[d]
  BY <1>1, <1>2 DEF TypeOK, Put
<1>5. holder'[c] = r /\ \A d \in Conns \ {c} : holder'[d] = holder[d]
  BY <1>1, <1>2 DEF TypeOK, Put
<1>6. pc'[r] = "write" /\ \A s \in Requests \ {r} : pc'[s] = pc[s]
  BY <1>1 DEF TypeOK, Put
<1>7. \A s \in Requests : (Early(s)' => Early(s)) /\ (s # r => (Leasing(s)' => Leasing(s)))
  BY <1>1, <1>6 DEF Early, Unserved, Leasing
<1>8. conn'[r] = c
  BY <1>1
<1>9. \A d \in Conns : serving[d] \subseteq Requests
  BY DEF CarryInv, OrderType
<1> HIDE DEF c
<1>10. OrderType'
  BY <1>1, Zenon DEF CarryInv, OrderType
<1>11. Held'
  <2>1. \A s \in Requests \ {r} : Leasing(s) => conn[s] \in Conns /\ conn[s] # c
    BY <1>2, <1>3 DEF CarryInv, Held, LeaseInv, Engaged, Owns
  <2>2. \A d \in entries : d \in Conns
    BY DEF TypeOK
  <2> QED
    BY <1>1, <1>2, <1>5, <1>7, <1>8, <2>1, <2>2 DEF CarryInv, Held
<1>12. Attributed'
  BY <1>1, <1>3, <1>4, <1>5, <1>7, <1>9 DEF CarryInv, Attributed
<1>13. Fresh'
  BY <1>1, <1>6, <1>7 DEF CarryInv, Fresh, Queued
<1>14. ReadInv'
  BY <1>1, <1>6 DEF CarryInv, ReadInv
<1>15. Ended'
  BY <1>1 DEF CarryInv, Ended, Over
<1> QED
  BY <1>10, <1>11, <1>12, <1>13, <1>14, <1>15 DEF CarryInv

\* The provider starts to answer a request nothing of which has arrived.
LEMMA CarryWrite ==
  ASSUME TypeOK, LeaseInv, CarryInv, NEW r \in Requests, WriteCreate(r) \/ WriteFail(r)
  PROVE  CarryInv'
<1> DEFINE c == conn[r]
<1>1. /\ pc[r] = "write" /\ serving' \in {serving, Put(serving, c, serving[c] \cup {r})}
      /\ UNCHANGED <<queue, delivered, hand, sent, consumed, readErr, reader, seen, conn>>
  BY DEF WriteCreate, WriteFail, leaseVars, readerVars, bodyVars
<1>2. /\ pc'[r] \in {"prefix", "failing"} /\ entries' \subseteq entries /\ UNCHANGED <<holder, busy>>
      /\ \A s \in Requests \ {r} : pc'[s] = pc[s] \/ (pc[s] = "parked" /\ pc'[s] = "acquire")
  <2>1. CASE WriteCreate(r)
    <3>1. pc' = Put(pc, r, "prefix") /\ UNCHANGED <<entries, holder, busy>>
      BY <2>1 DEF WriteCreate, poolVars
    <3> QED
      BY <3>1 DEF Put, TypeOK
  <2>2. CASE WriteFail(r)
    <3>1. ReleaseDiscard(r, "failing") /\ "failing" \in PcSet \ {"parked"}
      BY <2>2 DEF WriteFail, Fail, PcSet
    <3>2. /\ pc'[r] = "failing" /\ entries' \subseteq entries /\ UNCHANGED <<holder, busy>>
          /\ \A s \in Requests \ {r} : pc'[s] = pc[s] \/ (pc[s] = "parked" /\ pc'[s] = "acquire")
      BY <3>1, ReleaseFacts
    <3> QED
      BY <3>2
  <2> QED
    BY <2>1, <2>2
<1>3. c \in Conns /\ holder[c] = r
  BY <1>1 DEF LeaseInv, Engaged, Owns, Leasing, CarryInv, Held
<1>4. \A d \in Conns : serving[d] \subseteq Requests /\ serving'[d] \subseteq serving[d] \cup {r} /\ (d # c => serving'[d] = serving[d])
  BY <1>1, <1>3 DEF CarryInv, OrderType, Put
<1>5. Early(r) /\ \A s \in Requests : (Early(s)' => s # r /\ Early(s)) /\ (Leasing(s)' => Leasing(s))
  BY <1>1, <1>2 DEF Early, Unserved, Leasing
<1>6. delivered[r] = <<>> /\ ~Queued(r) /\ \A d \in Conns : hand[d].owner # r
  BY <1>5 DEF CarryInv, Fresh
<1> HIDE DEF c
<1>7. OrderType'
  <2>1. serving \in [Conns -> SUBSET Requests]
    BY DEF CarryInv, OrderType
  <2>2. serving[c] \cup {r} \in SUBSET Requests
    BY <1>3, <2>1
  <2>3. serving' \in [Conns -> SUBSET Requests]
    BY <1>1, <1>3, <2>1, <2>2 DEF Put
  <2> QED
    BY <1>1, <2>3, Zenon DEF CarryInv, OrderType
<1>8. Held'
  BY <1>1, <1>2, <1>5 DEF CarryInv, Held
<1>9. Attributed'
  <2>1. \A d \in Conns : \A s \in serving'[d] : holder'[d] = s /\ ~Early(s)'
    BY <1>2, <1>3, <1>4, <1>5 DEF CarryInv, Attributed
  <2> QED
    BY <1>1, <1>2, <2>1 DEF CarryInv, Attributed
<1>10. Fresh'
  BY <1>1, <1>2, <1>5, <1>6 DEF CarryInv, Fresh, Queued
<1>11. ReadInv'
  BY <1>1, <1>2 DEF CarryInv, ReadInv
<1>12. Ended'
  <2>1. \A s \in Requests \ {r} : Over(s) => Over(s)'
    BY <1>4 DEF Over
  <2>2. \A i \in DOMAIN queue[r] : queue[r][i].kind # "terminal"
    <3> SUFFICES ASSUME NEW i \in DOMAIN queue[r], queue[r][i].kind = "terminal" PROVE FALSE
      OBVIOUS
    <3>1. queue[r] \in Seq(Msgs) /\ Len(queue[r]) <= 1 /\ queue[r][i].owner = r
      BY DEF CarryInv, OrderType, Attributed, Ended
    <3>2. i = 1 /\ queue[r] # <<>>
      BY <3>1
    <3> QED
      BY <1>6, <3>1, <3>2 DEF Queued
  <2>3. DOMAIN delivered[r] = {}
    BY <1>6
  <2> QED
    BY <1>1, <1>6, <2>1, <2>2, <2>3 DEF CarryInv, Ended
<1> QED
  BY <1>7, <1>8, <1>9, <1>10, <1>11, <1>12 DEF CarryInv


\* A message m leaves the queue for the caller.
Takes(r, m) ==
  /\ queue[r] # <<>> /\ m = Head(queue[r])
  /\ queue' = Put(queue, r, <<>>) /\ delivered' = Put(delivered, r, Append(delivered[r], m))
  /\ UNCHANGED <<hand, serving, sent, holder, busy, reader, seen, conn>> /\ entries' \subseteq entries
  /\ readErr' \in [Requests -> BOOLEAN] /\ consumed' \in [Requests -> Nat] /\ pc[r] \in LeasingPcs \ {"write"}
  /\ \A s \in Requests \ {r} : /\ pc'[s] = pc[s] \/ (pc[s] = "parked" /\ pc'[s] = "acquire")
                               /\ consumed'[s] = consumed[s] /\ readErr'[s] = readErr[s]
  /\ consumed'[r] <= Len(delivered[r]) + 1
  /\ \/ pc'[r] = "failing"
     \/ pc'[r] = "prefix" /\ pc[r] \in {"prefix", "prefixBlocked"} /\ m.kind = "ancillary"
     \/ pc'[r] = "body" /\ pc[r] \in {"prefix", "prefixBlocked"} /\ consumed'[r] <= Len(delivered[r])
     \/ pc'[r] = "body" /\ consumed'[r] = Len(delivered[r]) + 1 /\ (m.kind = "error" => readErr'[r])

\* What the queues and the callers hold afterwards.
LEMMA TakeFacts ==
  ASSUME OrderType, Attributed, NEW r \in Requests, NEW m, Takes(r, m)
  PROVE  /\ delivered[r] \in Seq(Msgs) /\ m \in Msgs /\ queue[r][1] = m /\ 1 \in DOMAIN queue[r]
         /\ queue' \in [Requests -> Seq(Msgs)] /\ queue'[r] = <<>>
         /\ \A s \in Requests \ {r} : queue'[s] = queue[s]
         /\ delivered' \in [Requests -> Seq(Msgs)] /\ delivered'[r] = Append(delivered[r], m)
         /\ \A s \in Requests \ {r} : delivered'[s] = delivered[s]
<1>1. /\ queue[r] # <<>> /\ m = Head(queue[r])
      /\ queue' = Put(queue, r, <<>>) /\ delivered' = Put(delivered, r, Append(delivered[r], m))
  BY DEF Takes
<1>2. queue[r] \in Seq(Msgs) /\ delivered[r] \in Seq(Msgs)
  BY DEF OrderType
<1>3. Len(queue[r]) >= 1 /\ queue[r][1] = m /\ m \in Msgs /\ 1 \in DOMAIN queue[r]
  BY <1>1, <1>2
<1>4. queue \in [Requests -> Seq(Msgs)] /\ delivered \in [Requests -> Seq(Msgs)]
  BY DEF OrderType
<1>5. Append(delivered[r], m) \in Seq(Msgs)
  BY <1>2, <1>3
<1> DEFINE D == Append(delivered[r], m)
<1>6. D \in Seq(Msgs) /\ delivered' = Put(delivered, r, D)
  BY <1>1, <1>5
<1>7. <<>> \in Seq(Msgs)
  OBVIOUS
<1> HIDE DEF D
<1>8. /\ delivered' \in [Requests -> Seq(Msgs)] /\ delivered'[r] = D
      /\ \A s \in Requests \ {r} : delivered'[s] = delivered[s]
  BY <1>4, <1>6 DEF Put
<1>9. /\ queue' \in [Requests -> Seq(Msgs)] /\ queue'[r] = <<>>
      /\ \A s \in Requests \ {r} : queue'[s] = queue[s]
  BY <1>1, <1>4, <1>7 DEF Put
<1> QED
  BY <1>2, <1>3, <1>8, <1>9 DEF D

\* Handing a message over keeps everything attributed.
LEMMA CarryTake ==
  ASSUME TypeOK, CarryInv, NEW r \in Requests, NEW m, Takes(r, m)
  PROVE  CarryInv'
<1> DEFINE D == Append(delivered[r], m)
<1>1. delivered[r] \in Seq(Msgs) /\ m \in Msgs /\ queue[r][1] = m /\ 1 \in DOMAIN queue[r]
  BY TakeFacts DEF CarryInv
<1>2. /\ queue' \in [Requests -> Seq(Msgs)] /\ queue'[r] = <<>>
      /\ \A s \in Requests \ {r} : queue'[s] = queue[s]
  BY TakeFacts DEF CarryInv
<1>3. D \in Seq(Msgs) /\ Len(D) = Len(delivered[r]) + 1 /\ D[Len(D)] = m
      /\ \A i \in DOMAIN delivered[r] : i \in DOMAIN D /\ D[i] = delivered[r][i]
  BY <1>1
<1>4. DOMAIN D = DOMAIN delivered[r] \cup {Len(D)}
  BY <1>1
<1>5. /\ delivered' \in [Requests -> Seq(Msgs)] /\ delivered'[r] = D
      /\ \A s \in Requests \ {r} : delivered'[s] = delivered[s]
  BY TakeFacts DEF CarryInv
<1>6. Len(delivered[r]) \in Nat
  BY <1>1
<1>20. /\ UNCHANGED <<hand, serving, sent, holder, busy, reader, seen, conn>> /\ entries' \subseteq entries
       /\ readErr' \in [Requests -> BOOLEAN] /\ consumed' \in [Requests -> Nat]
  BY DEF Takes
<1>21. /\ pc[r] \in LeasingPcs \ {"write"} /\ pc'[r] \in {"failing", "prefix", "body"}
       /\ (pc'[r] = "prefix" => pc[r] \in {"prefix", "prefixBlocked"} /\ m.kind = "ancillary")
       /\ \A s \in Requests \ {r} : /\ pc'[s] = pc[s] \/ (pc[s] = "parked" /\ pc'[s] = "acquire")
                                    /\ consumed'[s] = consumed[s] /\ readErr'[s] = readErr[s]
  BY DEF Takes
<1>22. /\ consumed'[r] <= Len(delivered[r]) + 1
       /\ pc'[r] = "body" => \/ pc[r] \in {"prefix", "prefixBlocked"} /\ consumed'[r] <= Len(delivered[r])
                             \/ consumed'[r] = Len(delivered[r]) + 1 /\ (m.kind = "error" => readErr'[r])
  BY DEF Takes
<1> HIDE DEF D
<1>7. \A s \in Requests : (Early(s)' => s # r /\ Early(s)) /\ (Leasing(s)' => Leasing(s))
  BY <1>21 DEF Early, Unserved, Leasing, LeasingPcs
<1>8. OrderType'
  BY <1>2, <1>5, <1>20, Zenon DEF CarryInv, OrderType
<1>9. Held'
  BY <1>7, <1>20 DEF CarryInv, Held
<1>10. Attributed'
  <2>1. \A d \in Conns : serving[d] \subseteq Requests
    BY DEF CarryInv, OrderType
  <2>2. \A s \in Requests : Len(queue'[s]) <= 1 /\ (queue'[s] # <<>> => queue'[s][1].owner \in {s, None})
    BY <1>2 DEF CarryInv, Attributed
  <2> QED
    BY <1>7, <1>20, <2>1, <2>2 DEF CarryInv, Attributed
<1>11. Fresh'
  <2>1. \A s \in Requests : Early(s)' => sent'[s] = 0 /\ delivered'[s] = <<>> /\ ~Queued(s)' /\ \A d \in Conns : hand'[d].owner # s
    BY <1>2, <1>5, <1>7, <1>20 DEF CarryInv, Fresh, Queued
  <2>2. \A s \in Requests \ {r} : pc'[s] \in {"prefix", "prefixBlocked"} =>
          \A i \in DOMAIN delivered'[s] : delivered'[s][i].kind = "ancillary"
    BY <1>5, <1>21 DEF CarryInv, Fresh
  <2>3. pc'[r] \in {"prefix", "prefixBlocked"} => \A i \in DOMAIN D : D[i].kind = "ancillary"
    BY <1>3, <1>4, <1>21 DEF CarryInv, Fresh
  <2> QED
    BY <1>5, <2>1, <2>2, <2>3 DEF Fresh
<1>12. ReadInv'
  <2>1. consumed'[r] \in Nat /\ consumed'[r] <= Len(D) /\ pc'[r] # "bodyBlocked"
    BY <1>3, <1>6, <1>20, <1>21, <1>22
  <2>2. pc'[r] = "body" /\ consumed'[r] > 0 /\ ~readErr'[r] => D[consumed'[r]].kind # "error"
    <3> SUFFICES ASSUME pc'[r] = "body", consumed'[r] > 0, ~readErr'[r] PROVE D[consumed'[r]].kind # "error"
      OBVIOUS
    <3>1. CASE consumed'[r] = Len(delivered[r]) + 1 /\ (m.kind = "error" => readErr'[r])
      BY <1>3, <3>1
    <3>2. CASE pc[r] \in {"prefix", "prefixBlocked"} /\ consumed'[r] <= Len(delivered[r])
      <4>1. consumed'[r] \in DOMAIN delivered[r]
        BY <1>1, <1>6, <2>1, <3>2
      <4>2. D[consumed'[r]].kind = "ancillary"
        BY <1>3, <3>2, <4>1 DEF CarryInv, Fresh
      <4> QED
        BY <4>2
    <3> QED
      BY <1>22, <3>1, <3>2
  <2>3. \A s \in Requests \ {r} :
          /\ consumed'[s] <= Len(delivered'[s])
          /\ pc'[s] = "bodyBlocked" => consumed'[s] = Len(delivered'[s])
          /\ pc'[s] \in {"body", "bodyBlocked"} /\ consumed'[s] > 0 /\ ~readErr'[s] =>
               delivered'[s][consumed'[s]].kind # "error"
    BY <1>5, <1>21 DEF CarryInv, ReadInv
  <2> QED
    BY <1>5, <2>1, <2>2, <2>3 DEF ReadInv
<1>13. Ended'
  <2>1. \A s \in Requests : Over(s)' = Over(s)
    BY <1>20 DEF Over
  <2>2. m.kind = "terminal" => m.owner = r /\ Over(r)
    BY <1>1 DEF CarryInv, Ended
  <2>3. \A s \in Requests : \A i \in DOMAIN delivered'[s] :
          delivered'[s][i].kind = "terminal" => delivered'[s][i].owner = s /\ Over(s)'
    BY <1>3, <1>4, <1>5, <2>1, <2>2 DEF CarryInv, Ended
  <2>4. \A s \in Requests : \A i \in DOMAIN queue'[s] :
          queue'[s][i].kind = "terminal" => queue'[s][i].owner = s /\ Over(s)'
    BY <1>2, <2>1 DEF CarryInv, Ended
  <2> QED
    BY <1>20, <2>1, <2>3, <2>4 DEF CarryInv, Ended
<1> QED
  BY <1>8, <1>9, <1>10, <1>11, <1>12, <1>13 DEF CarryInv

\* Read hands out a message that was delivered before.
LEMMA CarryPrefetched ==
  ASSUME TypeOK, CarryInv, NEW r \in Requests, ReadPrefetched(r)
  PROVE  CarryInv'
<1>1. /\ UNCHANGED <<queue, delivered, hand, serving, sent, conn, holder, busy, entries, reader, seen, pc>>
      /\ pc[r] = "body" /\ consumed[r] < Len(delivered[r]) /\ consumed' = Put(consumed, r, consumed[r] + 1)
  BY DEF ReadPrefetched, Readable, Consume, poolVars, readerVars, wireVars, leaseVars
<1>2. readErr' = [readErr EXCEPT ![r] = delivered[r][consumed[r] + 1].kind \in {"invalid", "error"}]
  BY DEF ReadPrefetched, Consume, Put
<1>3. consumed' \in [Requests -> Nat] /\ consumed'[r] = consumed[r] + 1 /\ consumed[r] \in Nat
      /\ \A s \in Requests \ {r} : consumed'[s] = consumed[s]
  BY <1>1 DEF CarryInv, OrderType, Put
<1>4. readErr' \in [Requests -> BOOLEAN] /\ \A s \in Requests \ {r} : readErr'[s] = readErr[s]
  BY <1>2 DEF CarryInv, OrderType
<1>5. readErr'[r] <=> delivered[r][consumed[r] + 1].kind \in {"invalid", "error"}
  BY <1>2 DEF CarryInv, OrderType
<1>6. OrderType'
  BY <1>1, <1>3, <1>4, Zenon DEF CarryInv, OrderType
<1>7. ReadInv'
  <2>1. delivered[r] \in Seq(Msgs)
    BY DEF CarryInv, OrderType
  <2>2. Len(delivered[r]) \in Nat
    BY <2>1
  <2>3. consumed'[r] <= Len(delivered[r]) /\ (~readErr'[r] => delivered[r][consumed'[r]].kind # "error")
    BY <1>1, <1>3, <1>5, <2>2
  <2> QED
    BY <1>1, <1>3, <1>4, <2>3 DEF CarryInv, ReadInv
<1>8. Held' /\ Attributed' /\ Fresh' /\ Ended'
  BY <1>1 DEF CarryInv, Held, Attributed, Fresh, Ended, Over, Queued, Early, Unserved, Leasing
<1> QED
  BY <1>6, <1>7, <1>8 DEF CarryInv

\* A connection is returned when the provider has finished its response and the
\* receiver holds nothing of it.
LEMMA CarryReturn ==
  ASSUME TypeOK, LeaseInv, SealInv, CarryInv, NEW r \in Requests, CloseRelease(r), Returns(r)
  PROVE  CarryInv'
<1> DEFINE c == conn[r]
<1>1. /\ pc[r] = "body" /\ holder' = Put(holder, c, None) /\ busy' = [busy EXCEPT ![c] = FALSE]
      /\ pc' = Woken(Put(pc, r, "done"))
      /\ UNCHANGED <<queue, delivered, hand, serving, sent, consumed, reader, seen, conn, entries>>
  BY DEF CloseRelease, readerVars, wireVars, Put
<1>2. c \in Conns /\ holder[c] = r
  BY <1>1 DEF LeaseInv, Engaged, Owns, Leasing, CarryInv, Held
<1>3. terminal[r] /\ ~pending[r] /\ ~released[r]
  BY <1>1 DEF Returns, Reusable, SealInv, Forgotten
<1>4. reader[c] \in {"exit", "wait"}
  BY <1>2, <1>3 DEF SealInv, Stays
<1>5. hand[c].owner = None
  BY <1>2, <1>4 DEF CarryInv, Attributed
<1>6. Over(r)
  <2>1. consumed[r] > 0 /\ ~readErr[r] /\ Ends(delivered[r][consumed[r]].kind)
    BY DEF Returns, Complete, BodyTerminal
  <2>2. delivered[r][consumed[r]].kind = "terminal"
    BY <1>1, <2>1 DEF Ends, CarryInv, ReadInv
  <2>3. delivered[r] \in Seq(Msgs) /\ consumed[r] \in Nat /\ consumed[r] <= Len(delivered[r])
    BY DEF CarryInv, OrderType, ReadInv
  <2>4. consumed[r] \in DOMAIN delivered[r]
    BY <2>1, <2>3
  <2> QED
    BY <2>2, <2>4 DEF CarryInv, Ended
<1>7. serving[c] = {}
  BY <1>2, <1>6 DEF Over, CarryInv, Attributed
<1>8. holder'[c] = None /\ \A d \in Conns \ {c} : holder'[d] = holder[d]
  BY <1>1, <1>2 DEF TypeOK, Put
<1>9. ~busy'[c] /\ \A d \in Conns \ {c} : busy'[d] = busy[d]
  BY <1>1, <1>2 DEF TypeOK
<1>10. "done" \in PcSet \ {"parked"}
  BY DEF PcSet
<1>11. /\ pc'[r] = "done"
       /\ \A s \in Requests \ {r} : pc'[s] = pc[s] \/ (pc[s] = "parked" /\ pc'[s] = "acquire")
  BY <1>1, <1>10, WokenMove DEF TypeOK
<1>12. \A s \in Requests : (Early(s)' => Early(s)) /\ (Leasing(s)' => s # r /\ Leasing(s))
  BY <1>11 DEF Early, Unserved, Leasing
<1>13. readErr' = [readErr EXCEPT ![r] = ~Complete(r)]
  BY DEF CloseRelease, Put
<1>14. readErr' \in [Requests -> BOOLEAN] /\ \A s \in Requests \ {r} : readErr'[s] = readErr[s]
  BY <1>13 DEF CarryInv, OrderType
<1> HIDE DEF c
<1>15. OrderType'
  BY <1>1, <1>14, Zenon DEF CarryInv, OrderType
<1>16. Held'
  <2>1. \A s \in Requests \ {r} : Leasing(s) => conn[s] \in Conns /\ conn[s] # c
    BY <1>2 DEF CarryInv, Held, LeaseInv, Engaged, Owns
  <2>2. \A d \in entries : d \in Conns
    BY DEF TypeOK
  <2> QED
    BY <1>1, <1>8, <1>9, <1>12, <2>1, <2>2 DEF CarryInv, Held
<1>17. Attributed'
  <2>1. \A d \in Conns : serving[d] \subseteq Requests
    BY DEF CarryInv, OrderType
  <2> QED
    BY <1>1, <1>5, <1>7, <1>8, <1>12, <2>1 DEF CarryInv, Attributed
<1>18. Fresh'
  BY <1>1, <1>11, <1>12 DEF CarryInv, Fresh, Queued
<1>19. ReadInv'
  BY <1>1, <1>11, <1>14 DEF CarryInv, ReadInv
<1>20. Ended'
  BY <1>1 DEF CarryInv, Ended, Over
<1> QED
  BY <1>15, <1>16, <1>17, <1>18, <1>19, <1>20 DEF CarryInv


\* The requests while a receiver takes a step: some may wake up.
Waking == \A s \in Requests : pc'[s] = pc[s] \/ (pc[s] = "parked" /\ pc'[s] = "acquire")

kept == <<delivered, sent, consumed, readErr, conn, holder, busy>>

\* What a step of connection c's receiver changes.
ReceiverOnly(c) ==
  /\ UNCHANGED kept /\ entries' \subseteq entries /\ Waking
  /\ serving' \in [Conns -> SUBSET Requests] /\ hand' \in [Conns -> Msgs \cup {ReadFailure, Nothing}]
  /\ \A d \in Conns : serving'[d] \subseteq serving[d]
  /\ \A d \in Conns \ {c} : reader'[d] = reader[d] /\ seen'[d] = seen[d] /\ hand'[d] = hand[d]

\* Whatever a receiver does to its own connection, the rest is as it was.
LEMMA ReceiverFrame ==
  ASSUME CarryInv, NEW c \in Conns, ReceiverOnly(c)
  PROVE  /\ \A s \in Requests : (Early(s)' => Early(s)) /\ (Leasing(s)' => Leasing(s)) /\ (Over(s) => Over(s)')
         /\ Held' /\ ReadInv'
         /\ \A d \in Conns : serving[d] \subseteq Requests /\ \A s \in serving'[d] : holder'[d] = s /\ ~Early(s)'
<1>1. UNCHANGED kept /\ entries' \subseteq entries /\ Waking /\ \A d \in Conns : serving'[d] \subseteq serving[d]
  BY DEF ReceiverOnly
<1>2. \A s \in Requests : (Early(s)' => Early(s)) /\ (Leasing(s)' => Leasing(s)) /\ (Over(s) => Over(s)')
  BY <1>1 DEF Waking, Early, Unserved, Leasing, Over
<1>3. Held'
  BY <1>1, <1>2 DEF CarryInv, Held, kept
<1>4. ReadInv'
  BY <1>1 DEF CarryInv, ReadInv, kept, Waking
<1>5. \A d \in Conns : serving[d] \subseteq Requests
  BY DEF CarryInv, OrderType
<1>6. \A d \in Conns : \A s \in serving'[d] : holder'[d] = s /\ ~Early(s)'
  BY <1>1, <1>2, <1>5 DEF CarryInv, Attributed, kept
<1> QED
  BY <1>2, <1>3, <1>4, <1>5, <1>6

\* The receiver moves on with nothing in its hand that belongs to a response.
LEMMA CarryQuiet ==
  ASSUME CarryInv, NEW c \in Conns, ReceiverOnly(c), UNCHANGED queue,
         hand'[c].owner = None, hand'[c].kind # "terminal", reader'[c] # "reserve",
         reader'[c] = "got" => hand'[c] \in Msgs \cup {ReadFailure}
  PROVE  CarryInv'
<1>1. /\ \A s \in Requests : (Early(s)' => Early(s)) /\ (Leasing(s)' => Leasing(s)) /\ (Over(s) => Over(s)')
      /\ Held' /\ ReadInv'
      /\ \A d \in Conns : serving[d] \subseteq Requests /\ \A s \in serving'[d] : holder'[d] = s /\ ~Early(s)'
  BY ReceiverFrame
<1>2. /\ UNCHANGED kept /\ Waking
      /\ serving' \in [Conns -> SUBSET Requests] /\ hand' \in [Conns -> Msgs \cup {ReadFailure, Nothing}]
      /\ \A d \in Conns \ {c} : reader'[d] = reader[d] /\ seen'[d] = seen[d] /\ hand'[d] = hand[d]
  BY DEF ReceiverOnly
<1>3. OrderType'
  <2>1. UNCHANGED <<delivered, sent, consumed, readErr>>
    BY <1>2 DEF kept
  <2> QED
    BY <1>2, <2>1, Zenon DEF CarryInv, OrderType
<1>4. Attributed'
  BY <1>1, <1>2 DEF CarryInv, Attributed, kept
<1>5. Fresh'
  <2>1. None \notin Requests
    BY PoolAssumption
  <2> QED
    BY <1>1, <1>2, <2>1 DEF CarryInv, Fresh, Queued, kept, Waking
<1>6. Ended'
  BY <1>1, <1>2 DEF CarryInv, Ended, kept
<1> QED
  BY <1>1, <1>3, <1>4, <1>5, <1>6 DEF CarryInv

\* A message moves from the receiver's hand to the queue of the lease it is for.
LEMMA CarryEnqueue ==
  ASSUME CarryInv, NEW c \in Conns, ReceiverOnly(c), NEW l \in Requests, NEW m, m = hand[c], m \in Msgs,
         m.owner \in {l, None}, queue' = Put(queue, l, <<m>>), hand'[c] = Nothing,
         reader'[c] \notin {"got", "reserve"}
  PROVE  CarryInv'
<1>1. /\ \A s \in Requests : (Early(s)' => Early(s)) /\ (Leasing(s)' => Leasing(s)) /\ (Over(s) => Over(s)')
      /\ Held' /\ ReadInv'
      /\ \A d \in Conns : serving[d] \subseteq Requests /\ \A s \in serving'[d] : holder'[d] = s /\ ~Early(s)'
  BY ReceiverFrame
<1>2. /\ UNCHANGED kept /\ Waking
      /\ serving' \in [Conns -> SUBSET Requests] /\ hand' \in [Conns -> Msgs \cup {ReadFailure, Nothing}]
      /\ \A d \in Conns \ {c} : reader'[d] = reader[d] /\ seen'[d] = seen[d] /\ hand'[d] = hand[d]
  BY DEF ReceiverOnly
<1> DEFINE one == <<m>>
<1>3. one \in Seq(Msgs) /\ Len(one) = 1 /\ one[1] = m /\ one # <<>> /\ DOMAIN one = {1}
  OBVIOUS
<1>4. queue' = Put(queue, l, one)
  OBVIOUS
<1> HIDE DEF one
<1>5. queue \in [Requests -> Seq(Msgs)]
  BY DEF CarryInv, OrderType
<1>6. queue' \in [Requests -> Seq(Msgs)] /\ queue'[l] = one /\ \A s \in Requests \ {l} : queue'[s] = queue[s]
  BY <1>3, <1>4, <1>5 DEF Put
<1>7. hand'[c].owner = None /\ hand'[c].kind # "terminal" /\ None \notin Requests
  BY PoolAssumption DEF Nothing
<1>8. OrderType'
  <2>1. UNCHANGED <<delivered, sent, consumed, readErr>>
    BY <1>2 DEF kept
  <2> QED
    BY <1>2, <1>6, <2>1, Zenon DEF CarryInv, OrderType
<1>9. Attributed'
  <2>1. \A s \in Requests : Len(queue'[s]) <= 1 /\ (queue'[s] # <<>> => queue'[s][1].owner \in {s, None})
    <3>1. \A s \in Requests : Len(queue[s]) <= 1 /\ (queue[s] # <<>> => queue[s][1].owner \in {s, None})
      BY DEF CarryInv, Attributed
    <3>2. Len(one) <= 1 /\ one[1].owner \in {l, None}
      BY <1>3
    <3> QED
      BY <1>6, <3>1, <3>2
  <2>2. \A d \in Conns : hand'[d].owner # None => holder'[d] = hand'[d].owner /\ reader'[d] \in {"got", "reserve"}
    BY <1>2, <1>7 DEF CarryInv, Attributed, kept
  <2>3. \A d \in Conns : reader'[d] = "reserve" => hand'[d].owner \in {seen'[d], None} /\ hand'[d] \in Msgs
    BY <1>2 DEF CarryInv, Attributed
  <2>4. \A d \in Conns : reader'[d] = "got" => hand'[d] \in Msgs \cup {ReadFailure}
    BY <1>2 DEF CarryInv, Attributed
  <2> QED
    BY <1>1, <2>1, <2>2, <2>3, <2>4 DEF Attributed
<1>10. Fresh'
  <2>1. Early(l) => m.owner # l
    BY DEF CarryInv, Fresh
  <2>2. \A s \in Requests : Early(s)' => ~Queued(s)'
    BY <1>1, <1>3, <1>6, <2>1 DEF CarryInv, Fresh, Queued
  <2>3. \A s \in Requests : Early(s)' => sent'[s] = 0 /\ delivered'[s] = <<>> /\ \A d \in Conns : hand'[d].owner # s
    BY <1>1, <1>2, <1>7 DEF CarryInv, Fresh, kept
  <2>4. \A s \in Requests : pc'[s] \in {"prefix", "prefixBlocked"} =>
                              \A i \in DOMAIN delivered'[s] : delivered'[s][i].kind = "ancillary"
    BY <1>2 DEF CarryInv, Fresh, kept, Waking
  <2> QED
    BY <2>2, <2>3, <2>4 DEF Fresh
<1>11. Ended'
  <2>1. m.kind = "terminal" => m.owner = l /\ Over(l)
    BY <1>7 DEF CarryInv, Ended
  <2>2. \A s \in Requests : \A i \in DOMAIN queue'[s] :
          queue'[s][i].kind = "terminal" => queue'[s][i].owner = s /\ Over(s)'
    BY <1>1, <1>3, <1>6, <2>1 DEF CarryInv, Ended
  <2> QED
    BY <1>1, <1>2, <1>7, <2>2 DEF CarryInv, Ended, kept
<1> QED
  BY <1>1, <1>8, <1>9, <1>10, <1>11 DEF CarryInv


\* The special values a receiver may hold belong to no response.
LEMMA HandKinds ==
  /\ Nothing.owner = None /\ Nothing.kind = "nothing" /\ ReadFailure.owner = None /\ ReadFailure.kind = "failure"
  /\ Nothing # ReadFailure
  BY DEF Nothing, ReadFailure

\* conn.Read returns a message of the holder's response.
LEMMA CarryRead ==
  ASSUME TypeOK, SealInv, CarryInv, NEW c \in Conns, ReadMessage(c)
  PROVE  CarryInv'
<1>1. PICK r \in serving[c], k \in Kinds :
        /\ sent' = Put(sent, r, sent[r] + 1)
        /\ hand' = Put(hand, c, [owner |-> r, n |-> sent[r] + 1, kind |-> k])
        /\ serving' = Put(serving, c, IF k = "terminal" THEN serving[c] \ {r} ELSE serving[c])
  BY DEF ReadMessage
<1>2. /\ reader[c] = "reading" /\ reader' = Put(reader, c, "got")
      /\ UNCHANGED <<queue, delivered, consumed, readErr, conn, holder, busy, entries, seen, pc>>
  BY DEF ReadMessage, poolVars, leaseVars, reqVars, bodyVars
<1>3. /\ serving \in [Conns -> SUBSET Requests] /\ sent \in [Requests -> Nat]
      /\ hand \in [Conns -> Msgs \cup {ReadFailure, Nothing}]
  BY DEF CarryInv, OrderType
<1>4. r \in Requests /\ holder[c] = r /\ ~Early(r)
  BY <1>3 DEF CarryInv, Attributed
<1> DEFINE m == [owner |-> r, n |-> sent[r] + 1, kind |-> k]
<1>5. m \in Msgs /\ m.owner = r /\ m.kind = k
  BY <1>3, <1>4, PoolAssumption DEF Msgs, Holders
<1> HIDE DEF m
<1>6. hand' \in [Conns -> Msgs \cup {ReadFailure, Nothing}] /\ hand'[c] = m /\ \A d \in Conns \ {c} : hand'[d] = hand[d]
  <2>1. hand' = Put(hand, c, m)
    BY <1>1 DEF m
  <2> QED
    BY <1>3, <1>5, <2>1 DEF Put
<1>7. /\ serving' \in [Conns -> SUBSET Requests] /\ \A d \in Conns : serving'[d] \subseteq serving[d]
      /\ (k = "terminal" => r \notin serving'[c])
  <2>1. PICK v : v = IF k = "terminal" THEN serving[c] \ {r} ELSE serving[c]
    OBVIOUS
  <2>2. v \in SUBSET Requests /\ v \subseteq serving[c] /\ (k = "terminal" => r \notin v)
    BY <1>3, <2>1
  <2>3. serving' = Put(serving, c, v)
    BY <1>1, <2>1
  <2> QED
    BY <1>3, <2>2, <2>3 DEF Put
<1>8. sent' \in [Requests -> Nat] /\ \A s \in Requests \ {r} : sent'[s] = sent[s]
  BY <1>1, <1>3, <1>4 DEF Put
<1>9. reader'[c] = "got" /\ \A d \in Conns \ {c} : reader'[d] = reader[d]
  BY <1>2 DEF TypeOK, Put
<1>10. \A s \in Requests : (Early(s)' <=> Early(s)) /\ (Leasing(s)' <=> Leasing(s)) /\ (Over(s) => Over(s)')
  BY <1>2, <1>7 DEF Early, Unserved, Leasing, Over
<1>11. OrderType'
  BY <1>2, <1>6, <1>7, <1>8, Zenon DEF CarryInv, OrderType
<1>12. Held'
  BY <1>2, <1>10 DEF CarryInv, Held
<1>13. Attributed'
  <2>1. \A d \in Conns : \A s \in serving'[d] : holder'[d] = s /\ ~Early(s)'
    BY <1>2, <1>3, <1>7, <1>10 DEF CarryInv, Attributed
  <2>2. \A d \in Conns : hand'[d].owner # None => holder'[d] = hand'[d].owner /\ reader'[d] \in {"got", "reserve"}
    BY <1>2, <1>4, <1>5, <1>6, <1>9 DEF CarryInv, Attributed
  <2>3. \A d \in Conns : reader'[d] = "reserve" => hand'[d].owner \in {seen'[d], None} /\ hand'[d] \in Msgs
    BY <1>2, <1>6, <1>9 DEF CarryInv, Attributed
  <2>4. \A d \in Conns : reader'[d] = "got" => hand'[d] \in Msgs \cup {ReadFailure}
    BY <1>5, <1>6, <1>9 DEF CarryInv, Attributed
  <2> QED
    BY <1>2, <2>1, <2>2, <2>3, <2>4 DEF CarryInv, Attributed
<1>14. Fresh'
  <2>1. \A s \in Requests : Early(s) => s # r
    BY <1>4
  <2> QED
    BY <1>2, <1>5, <1>6, <1>8, <1>10, <2>1 DEF CarryInv, Fresh, Queued
<1>15. ReadInv'
  BY <1>2 DEF CarryInv, ReadInv
<1>16. Ended'
  <2>1. k = "terminal" => Over(r)'
    <3>1. \A d \in Conns \ {c} : r \notin serving[d]
      <4> SUFFICES ASSUME NEW d \in Conns \ {c}, r \in serving[d] PROVE FALSE
        OBVIOUS
      <4>1. holder[d] = r
        BY DEF CarryInv, Attributed
      <4> QED
        BY <1>4, <4>1 DEF SealInv, Given
    <3> QED
      BY <1>7, <3>1 DEF Over
  <2>2. ASSUME NEW d \in Conns, hand'[d].kind = "terminal"
        PROVE  hand'[d].owner \in Requests /\ \A e \in Conns : hand'[d].owner \notin serving'[e]
    <3>1. CASE d = c
      BY <1>4, <1>5, <1>6, <2>1, <2>2, <3>1 DEF Over
    <3>2. CASE d # c
      BY <1>6, <1>7, <2>2, <3>2 DEF CarryInv, Ended, Over
    <3> QED
      BY <3>1, <3>2
  <2>3. \A d \in Conns : hand'[d].kind = "terminal" =>
          hand'[d].owner \in Requests /\ \A e \in Conns : hand'[d].owner \notin serving'[e]
    BY <2>2
  <2>4. (\A d \in Conns : hand[d].kind = "terminal" => hand[d].owner \in Requests /\ Over(hand[d].owner))'
    BY <2>3 DEF Over
  <2> QED
    BY <1>2, <1>10, <2>4 DEF CarryInv, Ended
<1> QED
  BY <1>11, <1>12, <1>13, <1>14, <1>15, <1>16 DEF CarryInv

\* The receiver moves on with nothing in its hand, or with a stray or a failure.
LEMMA CarryIdle ==
  ASSUME TypeOK, SealInv, CarryInv, NEW c \in Conns,
         Capture(c) \/ ReadStray(c) \/ ReadFail(c) \/ SettleReserved(c) \/ AwaitRelease(c)
  PROVE  CarryInv'
<1>1. UNCHANGED <<queue, delivered, sent, consumed, readErr, conn, holder, busy, entries, pc>>
  BY DEF Capture, ReadStray, ReadFail, SettleReserved, AwaitRelease, poolVars, wireVars, leaseVars, reqVars, bodyVars
<1>2. hand \in [Conns -> Msgs \cup {ReadFailure, Nothing}] /\ serving \in [Conns -> SUBSET Requests]
  BY DEF CarryInv, OrderType
<1>3. reader[c] \in {"top", "reading", "settle", "wait"}
  BY DEF Capture, ReadStray, ReadFail, SettleReserved, AwaitRelease
<1>4. hand[c].owner = None /\ hand[c].kind # "terminal"
  <2>1. hand[c].owner = None
    BY <1>3 DEF CarryInv, Attributed
  <2> QED
    BY <2>1, PoolAssumption DEF CarryInv, Ended
<1>5. PICK a : reader' = Put(reader, c, a) /\ a \in {"reading", "got", "top", "wait", "exit"}
  BY DEF Capture, ReadStray, ReadFail, SettleReserved, AwaitRelease, ReceiverExits, AfterDelivery
<1>6. reader'[c] = a /\ \A d \in Conns \ {c} : reader'[d] = reader[d]
  BY <1>5 DEF TypeOK, Put
<1>7. \A d \in Conns \ {c} : seen'[d] = seen[d]
  BY DEF Capture, ReadStray, ReadFail, SettleReserved, AwaitRelease, ReceiverExits, TypeOK, Put
<1>8. serving' = serving \/ serving' = Put(serving, c, {})
  BY DEF Capture, ReadStray, ReadFail, SettleReserved, AwaitRelease, ReceiverExits, wireVars
<1>9. serving' \in [Conns -> SUBSET Requests] /\ \A d \in Conns : serving'[d] \subseteq serving[d]
  BY <1>2, <1>8 DEF Put
<1>10. \/ hand' = hand /\ a # "got"
       \/ \E v \in Msgs \cup {ReadFailure} : v.owner = None /\ v.kind # "terminal" /\ hand' = Put(hand, c, v)
  <2>1. CASE Capture(c) \/ SettleReserved(c) \/ AwaitRelease(c)
    <3>1. hand' = hand
      BY <2>1 DEF Capture, SettleReserved, AwaitRelease
    <3>2. reader' \in {Put(reader, c, "reading"), Put(reader, c, "wait"), Put(reader, c, "top"), Put(reader, c, "exit")}
      BY <2>1 DEF Capture, SettleReserved, AwaitRelease, ReceiverExits, AfterDelivery
    <3>3. a # "got"
      BY <1>6, <3>2 DEF TypeOK, Put
    <3> QED
      BY <3>1, <3>3
  <2>2. CASE ReadStray(c)
    <3>1. PICK k \in Kinds \ {"terminal"} : hand' = Put(hand, c, [owner |-> None, n |-> 0, kind |-> k])
      BY <2>2 DEF ReadStray
    <3>2. [owner |-> None, n |-> 0, kind |-> k] \in Msgs
      BY PoolAssumption DEF Msgs, Holders
    <3> QED
      BY <3>1, <3>2
  <2>3. CASE ReadFail(c)
    BY <2>3, HandKinds DEF ReadFail
  <2> QED
    BY <2>1, <2>2, <2>3
<1>11. /\ hand' \in [Conns -> Msgs \cup {ReadFailure, Nothing}] /\ \A d \in Conns \ {c} : hand'[d] = hand[d]
       /\ hand'[c].owner = None /\ hand'[c].kind # "terminal"
       /\ (reader'[c] = "got" => hand'[c] \in Msgs \cup {ReadFailure})
  <2>1. CASE hand' = hand /\ a # "got"
    BY <1>2, <1>4, <1>6, <2>1
  <2>2. ASSUME NEW v \in Msgs \cup {ReadFailure}, v.owner = None, v.kind # "terminal", hand' = Put(hand, c, v)
        PROVE  <1>11!:
    BY <1>2, <2>2 DEF Put
  <2> QED
    BY <1>10, <2>1, <2>2
<1>12. ReceiverOnly(c)
  BY <1>1, <1>6, <1>7, <1>9, <1>11 DEF ReceiverOnly, kept, Waking
<1>13. reader'[c] # "reserve"
  BY <1>5, <1>6
<1> QED
  BY <1>1, <1>11, <1>12, <1>13, CarryQuiet


\* The receiver gives up: whatever it holds is lost with its connection.
LEMMA CarryExit ==
  ASSUME TypeOK, CarryInv, NEW c \in Conns, ReceiverExits(c), hand' = Put(hand, c, Nothing),
         UNCHANGED <<queue, delivered, sent, consumed, readErr, conn, holder, busy>>, entries' \subseteq entries, Waking
  PROVE  CarryInv'
<1>1. hand \in [Conns -> Msgs \cup {ReadFailure, Nothing}] /\ serving \in [Conns -> SUBSET Requests]
  BY DEF CarryInv, OrderType
<1>2. /\ hand' \in [Conns -> Msgs \cup {ReadFailure, Nothing}] /\ hand'[c] = Nothing
      /\ \A d \in Conns \ {c} : hand'[d] = hand[d]
  BY <1>1 DEF Put
<1>3. serving' \in [Conns -> SUBSET Requests] /\ \A d \in Conns : serving'[d] \subseteq serving[d]
  BY <1>1 DEF ReceiverExits, Put
<1>4. reader'[c] = "exit" /\ \A d \in Conns \ {c} : reader'[d] = reader[d] /\ seen'[d] = seen[d]
  BY DEF ReceiverExits, TypeOK, Put
<1>5. ReceiverOnly(c)
  BY <1>2, <1>3, <1>4 DEF ReceiverOnly, kept
<1> QED
  BY <1>2, <1>4, <1>5, HandKinds, CarryQuiet

\* A message of the holder, or a stray, is admitted to the holder's queue or
\* waits in the receiver's hand for room in it.
LEMMA CarryAdmit ==
  ASSUME TypeOK, SealInv, CarryInv, NEW c \in Conns, Admit(c)
  PROVE  CarryInv'
<1>1. /\ reader[c] = "got" /\ hand' = IF reader'[c] = "reserve" THEN hand ELSE Put(hand, c, Nothing)
      /\ UNCHANGED <<delivered, sent, consumed, readErr, conn, holder, busy>>
  BY DEF Admit, bodyVars
<1>2. Waking /\ entries' \subseteq entries
  <2>1. (pc' = pc \/ pc' = WokenBy({c}, pc)) /\ entries' \subseteq entries
    BY DEF Admit, Discard
  <2> QED
    BY <2>1, WokenFacts DEF Waking, TypeOK
<1>3. CASE ReceiverExits(c) /\ UNCHANGED leaseVars
  <2>1. reader'[c] = "exit"
    BY <1>3 DEF ReceiverExits, TypeOK, Put
  <2>2. hand' = Put(hand, c, Nothing) /\ queue' = queue
    BY <1>1, <1>3, <2>1 DEF leaseVars
  <2> QED
    BY <1>1, <1>2, <1>3, <2>2, CarryExit
<1>4. ASSUME NEW l, l = LeaseFor(c), l # None, holder[c] = l, hand[c] # ReadFailure,
             seen' = Put(seen, c, l), Enqueue(c, l, hand[c]), serving' = serving
      PROVE  CarryInv'
  <2>1. l \in Requests
    BY <1>1, <1>4, NamedLease
  <2>2. PICK m : m = hand[c]
    OBVIOUS
  <2>3. m \in Msgs /\ m.owner \in {l, None}
    BY <1>1, <1>4, <2>2 DEF CarryInv, Attributed
  <2>4. hand \in [Conns -> Msgs \cup {ReadFailure, Nothing}] /\ serving \in [Conns -> SUBSET Requests]
    BY DEF CarryInv, OrderType
  <2>5. /\ hand' \in [Conns -> Msgs \cup {ReadFailure, Nothing}] /\ \A d \in Conns \ {c} : hand'[d] = hand[d]
        /\ (reader'[c] # "reserve" => hand'[c] = Nothing) /\ (reader'[c] = "reserve" => hand' = hand)
    BY <1>1, <2>4 DEF Put
  <2>6. \A d \in Conns \ {c} : reader'[d] = reader[d] /\ seen'[d] = seen[d]
    BY <1>4 DEF Enqueue, TypeOK, Put
  <2>7. ReceiverOnly(c)
    BY <1>1, <1>2, <1>4, <2>4, <2>5, <2>6 DEF ReceiverOnly, kept
  <2>8. CASE queue' = Put(queue, l, <<m>>) /\ reader' = Put(reader, c, AfterDelivery(terminal'[l]))
    <3>1. reader'[c] \in {"wait", "top"}
      BY <2>8 DEF AfterDelivery, TypeOK, Put
    <3> QED
      BY <2>1, <2>2, <2>3, <2>5, <2>7, <2>8, <3>1, CarryEnqueue
  <2>9. CASE UNCHANGED queue /\ reader' = Put(reader, c, "reserve")
    <3>1. reader'[c] = "reserve" /\ seen'[c] = l
      BY <1>4, <2>9 DEF TypeOK, Put
    <3>2. hand' = hand
      BY <2>5, <3>1
    <3>3. /\ \A s \in Requests : (Early(s)' => Early(s)) /\ (Leasing(s)' => Leasing(s)) /\ (Over(s) => Over(s)')
          /\ Held' /\ ReadInv'
          /\ \A d \in Conns : serving[d] \subseteq Requests /\ \A s \in serving'[d] : holder'[d] = s /\ ~Early(s)'
      BY <2>7, ReceiverFrame
    <3>4. OrderType'
      BY <1>1, <1>4, <2>9, <3>2, Zenon DEF CarryInv, OrderType
    <3>5. Attributed'
      BY <1>1, <2>2, <2>3, <2>6, <2>9, <3>1, <3>2, <3>3 DEF CarryInv, Attributed
    <3>6. Fresh'
      BY <1>1, <1>2, <2>9, <3>2, <3>3 DEF CarryInv, Fresh, Queued, Waking
    <3>7. Ended'
      BY <1>1, <1>4, <2>9, <3>2 DEF CarryInv, Ended, Over
    <3> QED
      BY <3>3, <3>4, <3>5, <3>6, <3>7 DEF CarryInv
  <2> QED
    BY <1>4, <2>2, <2>8, <2>9 DEF Enqueue
<1> QED
  <2>1. \/ ReceiverExits(c) /\ UNCHANGED leaseVars
        \/ /\ LeaseFor(c) # None /\ holder[c] = LeaseFor(c) /\ hand[c] # ReadFailure
           /\ seen' = Put(seen, c, LeaseFor(c)) /\ Enqueue(c, LeaseFor(c), hand[c]) /\ serving' = serving
    BY DEF Admit
  <2> QED
    BY <1>3, <1>4, <2>1

\* The reserved message takes its place in the queue, or is lost.
LEMMA CarryDeliver ==
  ASSUME TypeOK, SealInv, CarryInv, NEW c \in Conns, DeliverReserved(c)
  PROVE  CarryInv'
<1>1. /\ reader[c] = "reserve" /\ hand' = Put(hand, c, Nothing)
      /\ UNCHANGED <<delivered, sent, consumed, readErr, conn, holder, busy, entries, pc>>
  BY DEF DeliverReserved, poolVars, reqVars, bodyVars
<1>2. Waking
  BY <1>1 DEF Waking
<1>3. CASE ReceiverExits(c) /\ UNCHANGED queue
  BY <1>1, <1>2, <1>3, CarryExit
<1>4. CASE /\ queue' = Put(queue, seen[c], <<hand[c]>>) /\ reader' = Put(reader, c, "settle")
           /\ UNCHANGED <<seen, serving>>
  <2>1. PICK l, m : l = seen[c] /\ m = hand[c]
    OBVIOUS
  <2>2. l \in Requests /\ m \in Msgs /\ m.owner \in {l, None}
    BY <1>1, <2>1 DEF SealInv, Stays, CarryInv, Attributed
  <2>3. hand \in [Conns -> Msgs \cup {ReadFailure, Nothing}] /\ serving \in [Conns -> SUBSET Requests]
    BY DEF CarryInv, OrderType
  <2>4. /\ hand' \in [Conns -> Msgs \cup {ReadFailure, Nothing}] /\ \A d \in Conns \ {c} : hand'[d] = hand[d]
        /\ hand'[c] = Nothing
    BY <1>1, <2>3 DEF Put
  <2>5. reader'[c] = "settle" /\ \A d \in Conns \ {c} : reader'[d] = reader[d]
    BY <1>4 DEF TypeOK, Put
  <2>6. ReceiverOnly(c)
    BY <1>1, <1>2, <1>4, <2>3, <2>4, <2>5 DEF ReceiverOnly, kept
  <2>7. queue' = Put(queue, l, <<m>>)
    BY <1>4, <2>1
  <2> QED
    BY <2>1, <2>2, <2>4, <2>5, <2>6, <2>7, CarryEnqueue
<1> QED
  BY <1>3, <1>4 DEF DeliverReserved


\* The two places that take a message from the queue.
LEMMA TakeSteps ==
  ASSUME TypeOK, CarryInv, NEW r \in Requests, PrefixTake(r) \/ ReadQueued(r), NEW m, m = Head(queue[r])
  PROVE  Takes(r, m)
<1>1. /\ queue[r] # <<>> /\ queue' = Put(queue, r, <<>>) /\ delivered' = Put(delivered, r, Append(delivered[r], m))
      /\ UNCHANGED <<hand, serving, sent, reader, seen, conn>>
  BY DEF PrefixTake, ReadQueued, readerVars, wireVars
<1>2. /\ delivered[r] \in Seq(Msgs) /\ Len(delivered[r]) \in Nat /\ consumed \in [Requests -> Nat]
      /\ consumed[r] <= Len(delivered[r])
  <2>1. delivered[r] \in Seq(Msgs) /\ consumed \in [Requests -> Nat] /\ consumed[r] <= Len(delivered[r])
    BY DEF CarryInv, OrderType, ReadInv
  <2> QED
    BY <2>1
<1>3. readErr \in [Requests -> BOOLEAN]
  BY DEF CarryInv, OrderType
<1>4. CASE PrefixTake(r)
  <2>1. pc[r] \in {"prefix", "prefixBlocked"} /\ readErr' = readErr
    BY <1>4 DEF PrefixTake
  <2>2. CASE Fail(r) /\ UNCHANGED consumed
    <3>1. ReleaseDiscard(r, "failing") /\ "failing" \in PcSet \ {"parked"}
      BY <2>2 DEF Fail, PcSet
    <3>2. /\ pc'[r] = "failing" /\ entries' \subseteq entries /\ UNCHANGED <<holder, busy>>
          /\ \A s \in Requests \ {r} : pc'[s] = pc[s] \/ (pc[s] = "parked" /\ pc'[s] = "acquire")
      BY <3>1, ReleaseFacts
    <3>3. consumed'[r] <= Len(delivered[r]) + 1 /\ consumed' \in [Requests -> Nat]
      BY <1>2, <2>2
    <3> QED
      BY <1>1, <1>3, <2>1, <2>2, <3>2, <3>3 DEF Takes, LeasingPcs
  <2>3. CASE m.kind = "ancillary" /\ pc' = Put(pc, r, "prefix") /\ UNCHANGED <<poolVars, consumed>>
    <3>1. pc'[r] = "prefix" /\ \A s \in Requests \ {r} : pc'[s] = pc[s]
      BY <2>3 DEF TypeOK, Put
    <3>2. consumed'[r] <= Len(delivered[r]) + 1 /\ consumed' \in [Requests -> Nat]
      BY <1>2, <2>3
    <3>3. UNCHANGED <<entries, holder, busy>>
      BY <2>3 DEF poolVars
    <3> QED
      BY <1>1, <1>3, <2>1, <2>3, <3>1, <3>2, <3>3 DEF Takes, LeasingPcs
  <2>4. CASE /\ pc' = Put(pc, r, "body") /\ UNCHANGED poolVars
             /\ consumed' \in {Put(consumed, r, Len(delivered[r])), Put(consumed, r, 0)}
    <3>1. pc'[r] = "body" /\ \A s \in Requests \ {r} : pc'[s] = pc[s]
      BY <2>4 DEF TypeOK, Put
    <3>2. /\ consumed' \in [Requests -> Nat] /\ consumed'[r] \in {0, Len(delivered[r])}
          /\ \A s \in Requests \ {r} : consumed'[s] = consumed[s]
      BY <1>2, <2>4 DEF Put
    <3>3. consumed'[r] <= Len(delivered[r]) /\ consumed'[r] <= Len(delivered[r]) + 1
      BY <1>2, <3>2
    <3>4. UNCHANGED <<entries, holder, busy>>
      BY <2>4 DEF poolVars
    <3> QED
      BY <1>1, <1>3, <2>1, <3>1, <3>2, <3>3, <3>4 DEF Takes, LeasingPcs
  <2> QED
    BY <1>4, <2>2, <2>3, <2>4 DEF PrefixTake
<1>5. CASE ReadQueued(r)
  <2>1. /\ pc[r] \in {"body", "bodyBlocked"} /\ pc' = Put(pc, r, "body") /\ UNCHANGED <<entries, holder, busy>>
        /\ consumed' = Put(consumed, r, consumed[r] + 1)
    BY <1>5 DEF ReadQueued, Readable, Consume, poolVars
  <2>2. readErr' = [readErr EXCEPT ![r] = m.kind \in {"invalid", "error"}]
    BY <1>5 DEF ReadQueued, Consume, Put
  <2>3. consumed[r] = Len(delivered[r])
    BY <1>5 DEF ReadQueued, CarryInv, ReadInv
  <2>4. /\ consumed' \in [Requests -> Nat] /\ consumed'[r] = Len(delivered[r]) + 1
        /\ \A s \in Requests \ {r} : consumed'[s] = consumed[s]
    BY <1>2, <2>1, <2>3 DEF Put
  <2>5. /\ readErr' \in [Requests -> BOOLEAN] /\ (m.kind = "error" => readErr'[r])
        /\ \A s \in Requests \ {r} : readErr'[s] = readErr[s]
    <3>1. readErr'[r] <=> m.kind \in {"invalid", "error"}
      BY <1>3, <2>2
    <3>2. readErr' \in [Requests -> BOOLEAN] /\ \A s \in Requests \ {r} : readErr'[s] = readErr[s]
      BY <1>3, <2>2
    <3> QED
      BY <3>1, <3>2
  <2>6. pc'[r] = "body" /\ \A s \in Requests \ {r} : pc'[s] = pc[s]
    BY <2>1 DEF TypeOK, Put
  <2>7. consumed'[r] <= Len(delivered[r]) + 1
    BY <1>2, <2>4
  <2> QED
    BY <1>1, <2>1, <2>4, <2>5, <2>6, <2>7 DEF Takes, LeasingPcs
<1> QED
  BY <1>4, <1>5

\* Every step of a request keeps the messages attributed.
LEMMA CarryRequest ==
  ASSUME TypeOK, LeaseInv, SealInv, CarryInv, NEW r \in Requests, RequestStep(r)
  PROVE  CarryInv'
<1> DEFINE apart == \A s \in Requests \ {r} : pc'[s] = pc[s] \/ (pc[s] = "parked" /\ pc'[s] = "acquire")
<1>1. readErr \in [Requests -> BOOLEAN]
  BY DEF CarryInv, OrderType
<1>2. ASSUME UNCHANGED carried, UNCHANGED <<entries, readErr>>, NEW next, pc' = Put(pc, r, next),
             \/ next \in {"failing", "closing", "done"}
             \/ pc[r] \in {"acquire", "parked"} /\ next \in {"acquire", "parked"}
             \/ pc[r] \in {"prefix", "prefixBlocked"} /\ next \in {"prefix", "prefixBlocked"}
             \/ pc[r] = "body" /\ next = "bodyBlocked" /\ consumed[r] = Len(delivered[r])
      PROVE  CarryInv'
  <2>1. pc'[r] = next /\ \A s \in Requests \ {r} : pc'[s] = pc[s]
    BY <1>2 DEF TypeOK, Put
  <2> QED
    BY <1>1, <1>2, <2>1, CarryMove
<1>3. CASE AcquirePark(r) \/ AcquireAbort(r) \/ DialAfterClose(r) \/ PrefixBlock(r) \/ FinishCapture(r) \/ ReadBlock(r)
  <2>1. UNCHANGED carried /\ UNCHANGED <<entries, readErr>>
    BY <1>3 DEF AcquirePark, AcquireAbort, DialAfterClose, PrefixBlock, FinishCapture, ReadBlock, carried, poolVars,
       readerVars, wireVars, leaseVars, bodyVars
  <2>2. CASE AcquirePark(r)
    BY <1>2, <2>1, <2>2 DEF AcquirePark
  <2>3. CASE AcquireAbort(r) \/ DialAfterClose(r) \/ FinishCapture(r)
    BY <1>2, <2>1, <2>3 DEF AcquireAbort, DialAfterClose, FinishCapture
  <2>4. CASE PrefixBlock(r)
    BY <1>2, <2>1, <2>4 DEF PrefixBlock
  <2>5. CASE ReadBlock(r)
    BY <1>2, <2>1, <2>5 DEF ReadBlock, Readable
  <2> QED
    BY <1>3, <2>2, <2>3, <2>4, <2>5
<1>4. CASE DialFail(r)
  <2>1. /\ UNCHANGED carried /\ UNCHANGED readErr /\ entries' \subseteq entries
        /\ \E S : pc' = WokenBy(S, Put(pc, r, "done"))
    BY <1>4 DEF DialFail, Discard, carried, readerVars, wireVars, leaseVars, bodyVars
  <2>2. "done" \in PcSet \ {"parked"}
    BY DEF PcSet
  <2>3. pc'[r] = "done" /\ apart
    BY <2>1, <2>2, WokenMove DEF TypeOK
  <2> QED
    BY <1>1, <2>1, <2>3, CarryMove
<1>5. CASE PrefixFail(r)
  <2>1. /\ UNCHANGED <<queue, delivered, hand, serving, sent, consumed, conn, reader, seen, readErr>>
        /\ ReleaseDiscard(r, "failing") /\ "failing" \in PcSet \ {"parked"}
    BY <1>5 DEF PrefixFail, Fail, readerVars, wireVars, leaseVars, bodyVars, PcSet
  <2>2. pc'[r] = "failing" /\ entries' \subseteq entries /\ UNCHANGED <<holder, busy>> /\ apart
    BY <2>1, ReleaseFacts
  <2>3. UNCHANGED carried
    BY <2>1, <2>2 DEF carried
  <2> QED
    BY <1>1, <2>1, <2>2, <2>3, CarryMove
<1>6. ASSUME NEW reason, ReadAbort(r, reason) PROVE CarryInv'
  <2>1. /\ UNCHANGED <<queue, delivered, hand, serving, sent, consumed, conn, reader, seen>>
        /\ pc[r] = "bodyBlocked" /\ ReleaseDiscard(r, "body") /\ "body" \in PcSet \ {"parked"}
    BY <1>6 DEF ReadAbort, readerVars, wireVars, leaseVars, PcSet
  <2>2. readErr' = [readErr EXCEPT ![r] = TRUE]
    BY <1>6 DEF ReadAbort, Put
  <2>3. readErr' \in [Requests -> BOOLEAN] /\ readErr'[r] /\ \A s \in Requests \ {r} : readErr'[s] = readErr[s]
    BY <1>1, <2>2
  <2>4. pc'[r] = "body" /\ entries' \subseteq entries /\ UNCHANGED <<holder, busy>> /\ apart
    BY <2>1, ReleaseFacts
  <2>5. UNCHANGED carried
    BY <2>1, <2>4 DEF carried
  <2> QED
    BY <2>1, <2>3, <2>4, <2>5, CarryMove
<1>7. CASE CloseRelease(r) /\ ~Returns(r)
  <2>1. /\ UNCHANGED <<queue, delivered, hand, serving, sent, consumed, conn, reader, seen>>
        /\ ReleaseDiscard(r, "closing") /\ "closing" \in PcSet \ {"parked"}
    BY <1>7 DEF CloseRelease, readerVars, wireVars, PcSet
  <2>2. readErr' = [readErr EXCEPT ![r] = ~Complete(r)]
    BY <1>7 DEF CloseRelease, Put
  <2>3. readErr' \in [Requests -> BOOLEAN] /\ \A s \in Requests \ {r} : readErr'[s] = readErr[s]
    BY <1>1, <2>2
  <2>4. pc'[r] = "closing" /\ entries' \subseteq entries /\ UNCHANGED <<holder, busy>> /\ apart
    BY <2>1, ReleaseFacts
  <2>5. UNCHANGED carried
    BY <2>1, <2>4 DEF carried
  <2> QED
    BY <2>3, <2>4, <2>5, CarryMove
<1>8. CASE Drain(r) \/ CloseBegin(r) \/ Cancel(r)
  <2>1. UNCHANGED carried /\ UNCHANGED <<entries, readErr, pc>>
    BY <1>8 DEF Drain, CloseBegin, Cancel, carried, poolVars, readerVars, wireVars, leaseVars, bodyVars
  <2> QED
    BY <1>1, <2>1, CarryMove
<1>9. CASE CancelRelease(r)
  <2>1. PICK S : pc' = WokenBy(S, Put(pc, r, pc[r]))
    BY <1>9 DEF CancelRelease, ReleaseDiscard
  <2>2. Put(pc, r, pc[r]) = pc
    BY DEF Put, TypeOK
  <2>3. \A s \in Requests : pc'[s] = pc[s] \/ (pc[s] = "parked" /\ pc'[s] = "acquire")
    BY <2>1, <2>2, WokenFacts DEF TypeOK
  <2>4. UNCHANGED carried /\ entries' \subseteq entries /\ UNCHANGED readErr
    BY <1>9 DEF CancelRelease, ReleaseDiscard, Discard, carried, readerVars, wireVars, leaseVars, bodyVars
  <2> QED
    BY <1>1, <2>3, <2>4, CarryMove
<1>10. CASE PrefixTake(r) \/ ReadQueued(r)
  <2>1. PICK m : m = Head(queue[r])
    OBVIOUS
  <2> QED
    BY <1>10, <2>1, TakeSteps, CarryTake
<1> QED
  BY <1>3, <1>4, <1>5, <1>6, <1>7, <1>8, <1>9, <1>10, CarryReuse, CarryDial, CarryDialDone, CarryWrite,
     CarryPrefetched, CarryReturn DEF RequestStep

\* Every step keeps the messages attributed.
LEMMA CarryStep == TypeOK /\ LeaseInv /\ SealInv /\ CarryInv /\ [Next]_vars => CarryInv'
<1> SUFFICES ASSUME TypeOK, LeaseInv, SealInv, CarryInv, [Next]_vars PROVE CarryInv'
  OBVIOUS
<1>1. ASSUME UNCHANGED carried, entries' \subseteq entries, UNCHANGED readErr, pc' = pc \/ pc' = Woken(pc) PROVE CarryInv'
  <2>1. \A s \in Requests : pc'[s] = pc[s] \/ (pc[s] = "parked" /\ pc'[s] = "acquire")
    BY <1>1, WokenFacts DEF TypeOK
  <2>2. readErr' \in [Requests -> BOOLEAN]
    BY <1>1 DEF CarryInv, OrderType
  <2>3. \A s \in Requests : (Leasing(s)' => Leasing(s)) /\ (Early(s)' => Early(s))
    BY <2>1 DEF Leasing, Early, Unserved
  <2> QED
    BY <1>1, <2>1, <2>2, <2>3, CarryFrame
<1>2. ASSUME NEW c \in Conns, IdleTimerFires(c) \/ IdleTimerRuns(c) PROVE CarryInv'
  <2>1. UNCHANGED carried /\ UNCHANGED readErr /\ entries' \subseteq entries /\ (pc' = pc \/ pc' = Woken(pc))
    BY <1>2 DEF IdleTimerFires, IdleTimerRuns, Discard, WokenBy, carried, readerVars, wireVars, leaseVars, reqVars, bodyVars
  <2> QED
    BY <1>1, <2>1
<1>3. CASE Age \/ ClosePool
  <2>1. UNCHANGED carried /\ UNCHANGED readErr /\ entries' \subseteq entries /\ (pc' = pc \/ pc' = Woken(pc))
    BY <1>3 DEF Age, ClosePool, Discard, carried, readerVars, wireVars, leaseVars, reqVars, bodyVars
  <2> QED
    BY <1>1, <2>1
<1>4. CASE UNCHANGED vars
  BY <1>1, <1>4 DEF vars, carried, poolVars, readerVars, wireVars, leaseVars, reqVars, bodyVars
<1> QED
  BY <1>2, <1>3, <1>4, CarryRequest, CarryRead, CarryIdle, CarryAdmit, CarryDeliver DEF Next, ReceiverStep


\* At the start nothing is carried and nothing was handed over.
LEMMA CarryInit == Init => CarryInv /\ Numbered([r \in Requests |-> 0])
<1> SUFFICES ASSUME Init PROVE CarryInv /\ Numbered([r \in Requests |-> 0])
  OBVIOUS
<1>1. OrderType
  <2>1. queue \in [Requests -> Seq(Msgs)] /\ delivered \in [Requests -> Seq(Msgs)]
    BY DEF Init
  <2>2. hand \in [Conns -> Msgs \cup {ReadFailure, Nothing}]
    BY DEF Init
  <2>3. serving \in [Conns -> SUBSET Requests] /\ sent \in [Requests -> Nat] /\ consumed \in [Requests -> Nat]
    BY DEF Init
  <2>4. readErr \in [Requests -> BOOLEAN]
    BY DEF Init
  <2> QED
    BY <2>1, <2>2, <2>3, <2>4 DEF OrderType
<1>2. \A r \in Requests : pc[r] = "acquire" /\ queue[r] = <<>> /\ delivered[r] = <<>> /\ sent[r] = 0 /\ consumed[r] = 0
  BY DEF Init
<1>3. \A c \in Conns : reader[c] = "none" /\ serving[c] = {} /\ hand[c] = Nothing
  BY DEF Init
<1>4. \A c \in Conns : hand[c].owner = None /\ hand[c].kind = "nothing"
  BY <1>3, HandKinds
<1>5. None \notin Requests
  BY PoolAssumption
<1>6. Held
  <2>1. entries = {}
    BY DEF Init
  <2> QED
    BY <1>2, <2>1 DEF Held, Leasing
<1>7. Attributed
  BY <1>2, <1>3, <1>4 DEF Attributed
<1>8. Fresh
  BY <1>2, <1>4, <1>5 DEF Fresh, Queued
<1>9. ReadInv
  BY <1>2 DEF ReadInv
<1>10. Ended
  BY <1>2, <1>4 DEF Ended
<1>11. PICK g : g = [r \in Requests |-> 0]
  OBVIOUS
<1>12. \A r \in Requests : ~Queued(r) /\ Reached(r, g) = 0
  BY <1>2, <1>11 DEF Queued, Reached
<1>13. \A r \in Requests : InOrder(r, delivered[r], 0)
  BY <1>2 DEF InOrder
<1>14. Numbered(g)
  <2>1. \A r \in Requests : g[r] = 0
    BY <1>11
  <2> QED
    BY <1>2, <1>4, <1>5, <1>12, <1>13, <2>1 DEF Numbered
<1> QED
  BY <1>1, <1>6, <1>7, <1>8, <1>9, <1>10, <1>11, <1>14 DEF CarryInv

-----------------------------------------------------------------------------
(* Numbers.                                                                *)

\* A step that neither carries nor exits.
LEMMA NumberedFrame ==
  ASSUME NEW g \in [Requests -> Nat], Numbered(g), UNCHANGED <<queue, delivered, hand, sent>>,
         \A c \in Conns : reader[c] = "exit" => reader'[c] = "exit",
         \A r \in Requests : conn'[r] = conn[r] \/ sent[r] = Reached(r, g)
  PROVE  Numbered(g)'
<1>1. \A r \in Requests : (Queued(r)' <=> Queued(r)) /\ Reached(r, g)' = Reached(r, g)
  BY DEF Queued, Reached
<1>2. \A r \in Requests : InOrder(r, delivered'[r], g[r])
  BY DEF Numbered
<1>3. \A r \in Requests : Queued(r)' => queue'[r][1].n = g[r] + 1
  BY <1>1 DEF Numbered
<1>4. \A r \in Requests : Reached(r, g)' <= sent'[r]
  BY <1>1 DEF Numbered
<1>5. \A c \in Conns, r \in Requests : hand'[c].owner = r => hand'[c].n = Reached(r, g)' + 1 /\ sent'[r] = hand'[c].n
  BY <1>1 DEF Numbered
<1>6. \A r \in Requests : \/ sent'[r] = Reached(r, g)'
                          \/ \E c \in Conns : hand'[c].owner = r
                          \/ \E c \in Conns : conn'[r] = c /\ reader'[c] = "exit"
  BY <1>1 DEF Numbered
<1> QED
  BY <1>2, <1>3, <1>4, <1>5, <1>6 DEF Numbered


\* Handing over the next message of the response, or a stray.
LEMMA OrderTake ==
  ASSUME NEW r \in Requests, NEW g \in Nat, NEW D \in Seq(Msgs), InOrder(r, D, g), NEW m \in Msgs
  PROVE  /\ m.owner = None => InOrder(r, Append(D, m), g)
         /\ m.owner = r /\ m.n = g + 1 => InOrder(r, Append(D, m), g + 1)
<1> DEFINE E == Append(D, m)
           x == Len(D) + 1
<1>1. Len(D) \in Nat /\ DOMAIN D = 1..Len(D) /\ DOMAIN E = 1..x /\ E[x] = m /\ \A i \in 1..Len(D) : E[i] = D[i]
  OBVIOUS
<1>2. None # r
  BY PoolAssumption
<1> HIDE DEF E
<1>4. \A i : Own(r, D, i) <=> i \in 1..Len(D) /\ D[i].owner = r
  BY <1>1 DEF Own
<1>5. \A i : Own(r, E, i) <=> i \in 1..x /\ E[i].owner = r
  BY <1>1 DEF Own
<1>6. \A i \in 1..Len(D) : (Own(r, E, i) <=> Own(r, D, i)) /\ i # x /\ i < x /\ i \in 1..x
  BY <1>1, <1>4, <1>5
<1>7. \A i \in 1..x : i # x => i \in 1..Len(D)
  BY <1>1
<1>8. \A i \in 1..Len(D) : D[i].owner \in {r, None} /\ (Own(r, D, i) => D[i].n \in 1..g)
  BY <1>1 DEF InOrder
<1>9. \A i, j \in 1..Len(D) : Own(r, D, i) /\ Own(r, D, j) /\ i < j => D[i].n < D[j].n
  BY <1>1 DEF InOrder
<1>10. \A i \in 1..Len(D) : Own(r, D, i) => \A k \in 1..D[i].n : \E j \in 1..i : Own(r, D, j) /\ D[j].n = k
  BY <1>1 DEF InOrder
<1>11. \A k \in 1..g : \E j \in 1..Len(D) : Own(r, D, j) /\ D[j].n = k
  BY <1>1 DEF InOrder
<1>12. ASSUME m.owner = None PROVE InOrder(r, E, g)
  <2>1. ~Own(r, E, x)
    BY <1>1, <1>2, <1>5, <1>12
  <2>2. \A i \in 1..x : E[i].owner \in {r, None} /\ (Own(r, E, i) => E[i].n \in 1..g)
    BY <1>1, <1>6, <1>7, <1>8, <1>12, <2>1
  <2>3. \A i, j \in 1..x : Own(r, E, i) /\ Own(r, E, j) /\ i < j => E[i].n < E[j].n
    BY <1>1, <1>6, <1>7, <1>9, <2>1
  <2>4. \A i \in 1..x : Own(r, E, i) => \A k \in 1..E[i].n : \E j \in 1..i : Own(r, E, j) /\ E[j].n = k
    <3> SUFFICES ASSUME NEW i \in 1..x, Own(r, E, i), NEW k \in 1..E[i].n PROVE \E j \in 1..i : Own(r, E, j) /\ E[j].n = k
      OBVIOUS
    <3>1. i \in 1..Len(D) /\ Own(r, D, i) /\ E[i] = D[i]
      BY <1>1, <1>6, <1>7, <2>1
    <3>2. PICK j \in 1..i : Own(r, D, j) /\ D[j].n = k
      BY <1>10, <3>1
    <3>3. j \in 1..Len(D)
      BY <1>1, <3>1
    <3> QED
      BY <1>1, <1>6, <3>2, <3>3
  <2>5. \A k \in 1..g : \E j \in 1..x : Own(r, E, j) /\ E[j].n = k
    BY <1>1, <1>6, <1>11
  <2> QED
    BY <1>1, <2>2, <2>3, <2>4, <2>5 DEF InOrder
<1>13. ASSUME m.owner = r, m.n = g + 1 PROVE InOrder(r, E, g + 1)
  <2>1. Own(r, E, x) /\ E[x].n = g + 1
    BY <1>1, <1>5, <1>13
  <2>2. \A i \in 1..x : E[i].owner \in {r, None} /\ (Own(r, E, i) => E[i].n \in 1..(g + 1))
    <3>1. \A i \in 1..Len(D) : E[i].owner \in {r, None} /\ (Own(r, E, i) => E[i].n \in 1..(g + 1))
      BY <1>1, <1>6, <1>8
    <3>2. E[x].owner \in {r, None} /\ E[x].n \in 1..(g + 1)
      BY <1>1, <1>13, <2>1
    <3> QED
      BY <1>7, <3>1, <3>2
  <2>3. \A i, j \in 1..x : Own(r, E, i) /\ Own(r, E, j) /\ i < j => E[i].n < E[j].n
    <3> SUFFICES ASSUME NEW i \in 1..x, NEW j \in 1..x, Own(r, E, i), Own(r, E, j), i < j PROVE E[i].n < E[j].n
      OBVIOUS
    <3>1. i \in 1..Len(D) /\ E[i] = D[i] /\ Own(r, D, i) /\ D[i].n \in 1..g
      BY <1>1, <1>6, <1>8
    <3>2. CASE j = x
      BY <2>1, <3>1, <3>2
    <3>3. CASE j # x
      BY <1>1, <1>6, <1>7, <1>9, <3>1, <3>3
    <3> QED
      BY <3>2, <3>3
  <2>4. \A k \in 1..(g + 1) : \E j \in 1..x : Own(r, E, j) /\ E[j].n = k
    <3> SUFFICES ASSUME NEW k \in 1..(g + 1) PROVE \E j \in 1..x : Own(r, E, j) /\ E[j].n = k
      OBVIOUS
    <3>1. CASE k = g + 1
      BY <1>1, <2>1, <3>1
    <3>2. CASE k # g + 1
      <4>1. k \in 1..g
        BY <3>2
      <4>2. PICK j \in 1..Len(D) : Own(r, D, j) /\ D[j].n = k
        BY <1>11, <4>1
      <4> QED
        BY <1>1, <1>6, <4>2
    <3> QED
      BY <3>1, <3>2
  <2>5. \A i \in 1..x : Own(r, E, i) => \A k \in 1..E[i].n : \E j \in 1..i : Own(r, E, j) /\ E[j].n = k
    <3> SUFFICES ASSUME NEW i \in 1..x, Own(r, E, i), NEW k \in 1..E[i].n PROVE \E j \in 1..i : Own(r, E, j) /\ E[j].n = k
      OBVIOUS
    <3>1. CASE i = x
      BY <2>1, <2>4, <3>1
    <3>2. CASE i # x
      <4>1. i \in 1..Len(D) /\ Own(r, D, i) /\ E[i] = D[i]
        BY <1>1, <1>6, <1>7, <3>2
      <4>2. PICK j \in 1..i : Own(r, D, j) /\ D[j].n = k
        BY <1>10, <4>1
      <4>3. j \in 1..Len(D)
        BY <1>1, <4>1
      <4> QED
        BY <1>1, <1>6, <4>2, <4>3
    <3> QED
      BY <3>1, <3>2
  <2> QED
    BY <1>1, <2>2, <2>3, <2>4, <2>5 DEF InOrder
<1> QED
  BY <1>12, <1>13 DEF E


\* The caller gets the queued message.
LEMMA NumTake ==
  ASSUME CarryInv, NEW g \in [Requests -> Nat], Numbered(g), NEW r \in Requests, NEW m, Takes(r, m)
  PROVE  \E h \in [Requests -> Nat] : Numbered(h)'
<1>1. /\ delivered[r] \in Seq(Msgs) /\ m \in Msgs /\ queue[r][1] = m
      /\ queue'[r] = <<>> /\ \A s \in Requests \ {r} : queue'[s] = queue[s]
      /\ delivered'[r] = Append(delivered[r], m) /\ \A s \in Requests \ {r} : delivered'[s] = delivered[s]
  BY TakeFacts DEF CarryInv
<1>2. queue[r] # <<>> /\ UNCHANGED <<hand, sent, conn, reader>>
  BY DEF Takes
<1>3. m.owner \in {r, None} /\ None # r
  BY <1>1, <1>2, PoolAssumption DEF CarryInv, Attributed
<1>4. PICK h : h = IF m.owner = r THEN [g EXCEPT ![r] = g[r] + 1] ELSE g
  OBVIOUS
<1>5. /\ h \in [Requests -> Nat] /\ h[r] = (IF m.owner = r THEN g[r] + 1 ELSE g[r])
      /\ \A s \in Requests \ {r} : h[s] = g[s]
  BY <1>4
<1>6. ~Queued(r)' /\ (Queued(r) <=> m.owner = r) /\ \A s \in Requests \ {r} : Queued(s)' <=> Queued(s)
  BY <1>1, <1>2 DEF Queued
<1>7. \A s \in Requests : Reached(s, h)' = Reached(s, g)
  BY <1>5, <1>6 DEF Reached
<1>8. InOrder(r, delivered'[r], h[r])
  <2>1. InOrder(r, delivered[r], g[r]) /\ g[r] \in Nat /\ (m.owner = r => m.n = g[r] + 1)
    BY <1>1, <1>6 DEF Numbered
  <2> QED
    BY <1>1, <1>3, <1>5, <2>1, OrderTake
<1>9. \A s \in Requests \ {r} : InOrder(s, delivered'[s], h[s])
  BY <1>1, <1>5 DEF Numbered
<1>10. \A s \in Requests : Queued(s)' => queue'[s][1].n = h[s] + 1
  BY <1>1, <1>5, <1>6 DEF Numbered
<1>11. Numbered(h)'
  <2>1. \A s \in Requests : Reached(s, h)' <= sent'[s]
    BY <1>2, <1>7 DEF Numbered
  <2>2. \A c \in Conns, s \in Requests : hand'[c].owner = s => hand'[c].n = Reached(s, h)' + 1 /\ sent'[s] = hand'[c].n
    BY <1>2, <1>7 DEF Numbered
  <2>3. \A s \in Requests : \/ sent'[s] = Reached(s, h)'
                            \/ \E c \in Conns : hand'[c].owner = s
                            \/ \E c \in Conns : conn'[s] = c /\ reader'[c] = "exit"
    BY <1>2, <1>7 DEF Numbered
  <2> QED
    BY <1>8, <1>9, <1>10, <2>1, <2>2, <2>3 DEF Numbered
<1> QED
  BY <1>5, <1>11

\* The provider's next message arrives: the one before it has left the hand.
LEMMA NumRead ==
  ASSUME TypeOK, SealInv, CarryInv, NEW g \in [Requests -> Nat], Numbered(g), NEW c \in Conns, ReadMessage(c)
  PROVE  Numbered(g)'
<1>1. PICK r \in serving[c], k \in Kinds :
        /\ sent' = Put(sent, r, sent[r] + 1)
        /\ hand' = Put(hand, c, [owner |-> r, n |-> sent[r] + 1, kind |-> k])
  BY DEF ReadMessage
<1>2. reader[c] = "reading" /\ reader' = Put(reader, c, "got") /\ UNCHANGED <<queue, delivered, conn>>
  BY DEF ReadMessage, leaseVars, reqVars
<1>3. r \in Requests /\ holder[c] = r /\ sent \in [Requests -> Nat] /\ hand[c].owner = None
      /\ hand \in [Conns -> Msgs \cup {ReadFailure, Nothing}]
  BY <1>2 DEF CarryInv, OrderType, Attributed
<1>4. sent'[r] = sent[r] + 1 /\ \A s \in Requests \ {r} : sent'[s] = sent[s]
  BY <1>1, <1>3 DEF Put
<1>5. /\ hand'[c].owner = r /\ hand'[c].n = sent[r] + 1 /\ \A d \in Conns \ {c} : hand'[d] = hand[d]
  BY <1>1, <1>3 DEF Put
<1>6. conn[r] = c
  BY <1>3 DEF SealInv, Given
<1>7. \A d \in Conns : hand[d].owner # r
  <2> SUFFICES ASSUME NEW d \in Conns, hand[d].owner = r PROVE FALSE
    OBVIOUS
  <2>1. holder[d] = r /\ r # None
    BY <1>3, PoolAssumption DEF CarryInv, Attributed
  <2>2. d = c
    BY <1>3, <1>6, <2>1 DEF SealInv, Given
  <2> QED
    BY <1>3, <2>1, <2>2
<1>8. sent[r] = Reached(r, g)
  BY <1>2, <1>3, <1>6, <1>7 DEF Numbered
<1>9. \A s \in Requests : (Queued(s)' <=> Queued(s)) /\ Reached(s, g)' = Reached(s, g)
  BY <1>2 DEF Queued, Reached
<1>10. \A s \in Requests : sent[s] \in Nat
  BY <1>3
<1>11. \A s \in Requests : Reached(s, g)' <= sent'[s]
  <2>1. \A s \in Requests \ {r} : Reached(s, g)' <= sent'[s]
    BY <1>4, <1>9 DEF Numbered
  <2>2. Reached(r, g)' <= sent'[r]
    BY <1>3, <1>4, <1>8, <1>9, <1>10
  <2> QED
    BY <2>1, <2>2
<1>12. \A d \in Conns, s \in Requests : hand'[d].owner = s => hand'[d].n = Reached(s, g)' + 1 /\ sent'[s] = hand'[d].n
  <2>1. \A d \in Conns \ {c}, s \in Requests : hand'[d].owner = s => s # r
    BY <1>5, <1>7
  <2>2. \A d \in Conns \ {c}, s \in Requests : hand'[d].owner = s => hand'[d].n = Reached(s, g)' + 1 /\ sent'[s] = hand'[d].n
    BY <1>4, <1>5, <1>9, <2>1 DEF Numbered
  <2>3. \A s \in Requests : hand'[c].owner = s => hand'[c].n = Reached(s, g)' + 1 /\ sent'[s] = hand'[c].n
    BY <1>3, <1>4, <1>5, <1>8, <1>9
  <2> QED
    BY <2>2, <2>3
<1>13. \A s \in Requests : \/ sent'[s] = Reached(s, g)'
                           \/ \E d \in Conns : hand'[d].owner = s
                           \/ \E d \in Conns : conn'[s] = d /\ reader'[d] = "exit"
  <2>1. \A d \in Conns : reader[d] = "exit" => reader'[d] = "exit"
    BY <1>2 DEF TypeOK, Put
  <2>2. None \notin Requests
    BY PoolAssumption
  <2>3. ASSUME NEW s \in Requests \ {r}
        PROVE  \/ sent'[s] = Reached(s, g)'
               \/ \E d \in Conns : hand'[d].owner = s
               \/ \E d \in Conns : conn'[s] = d /\ reader'[d] = "exit"
    <3>1. CASE sent[s] = Reached(s, g)
      BY <1>4, <1>9, <3>1
    <3>2. ASSUME NEW d \in Conns, hand[d].owner = s PROVE \E e \in Conns : hand'[e].owner = s
      BY <1>3, <1>5, <2>2, <3>2
    <3>3. ASSUME NEW d \in Conns, conn[s] = d, reader[d] = "exit" PROVE \E e \in Conns : conn'[s] = e /\ reader'[e] = "exit"
      BY <1>2, <2>1, <3>3
    <3> QED
      BY <3>1, <3>2, <3>3 DEF Numbered
  <2> QED
    BY <1>5, <2>3
<1>14. \A s \in Requests : InOrder(s, delivered'[s], g[s]) /\ (Queued(s)' => queue'[s][1].n = g[s] + 1)
  BY <1>2, <1>9 DEF Numbered
<1> QED
  BY <1>11, <1>12, <1>13, <1>14 DEF Numbered

\* What is in the hand is a stray or a failure, or is lost when the receiver exits.
LEMMA NumDrop ==
  ASSUME TypeOK, SealInv, CarryInv, NEW g \in [Requests -> Nat], Numbered(g), NEW c \in Conns,
         UNCHANGED <<queue, delivered, sent, conn>>,
         \A d \in Conns \ {c} : hand'[d] = hand[d] /\ reader'[d] = reader[d],
         hand'[c].owner = None, (hand[c].owner = None /\ reader[c] # "exit") \/ reader'[c] = "exit"
  PROVE  Numbered(g)'
<1>1. \A s \in Requests : (Queued(s)' <=> Queued(s)) /\ Reached(s, g)' = Reached(s, g)
  BY DEF Queued, Reached
<1>2. None \notin Requests
  BY PoolAssumption
<1>3. \A s \in Requests : /\ InOrder(s, delivered'[s], g[s]) /\ (Queued(s)' => queue'[s][1].n = g[s] + 1)
                          /\ Reached(s, g)' <= sent'[s]
  BY <1>1 DEF Numbered
<1>4. \A d \in Conns, s \in Requests : hand'[d].owner = s => hand'[d].n = Reached(s, g)' + 1 /\ sent'[s] = hand'[d].n
  BY <1>1, <1>2 DEF Numbered
<1>5. ASSUME NEW s \in Requests
      PROVE  \/ sent'[s] = Reached(s, g)'
             \/ \E d \in Conns : hand'[d].owner = s
             \/ \E d \in Conns : conn'[s] = d /\ reader'[d] = "exit"
  <2> DEFINE accounted == \/ \E e \in Conns : hand'[e].owner = s
                          \/ \E e \in Conns : conn'[s] = e /\ reader'[e] = "exit"
  <2>1. CASE sent[s] = Reached(s, g)
    BY <1>1, <2>1
  <2>2. ASSUME NEW d \in Conns, hand[d].owner = s PROVE accounted
    <3>1. conn[s] = d
      BY <1>2, <2>2 DEF CarryInv, Attributed, SealInv, Given
    <3>2. CASE d = c
      BY <1>2, <2>2, <3>1, <3>2
    <3>3. CASE d # c
      BY <2>2, <3>3
    <3> QED
      BY <3>2, <3>3
  <2>3. ASSUME NEW d \in Conns, conn[s] = d, reader[d] = "exit" PROVE accounted
    <3>1. reader'[d] = "exit"
      BY <2>3
    <3> QED
      BY <2>3, <3>1
  <2> QED
    BY <2>1, <2>2, <2>3 DEF Numbered
<1> QED
  BY <1>3, <1>4, <1>5 DEF Numbered

\* The message in the hand is the next one after those that reached the lease.
LEMMA NumEnqueue ==
  ASSUME SealInv, CarryInv, NEW g \in [Requests -> Nat], Numbered(g), NEW c \in Conns, NEW l \in Requests, NEW m,
         m = hand[c], m \in Msgs, m.owner \in {l, None}, queue[l] = <<>>, queue' = Put(queue, l, <<m>>),
         UNCHANGED <<delivered, sent, conn>>, hand'[c].owner = None, reader[c] # "exit",
         \A d \in Conns \ {c} : hand'[d] = hand[d] /\ reader'[d] = reader[d]
  PROVE  Numbered(g)'
<1> DEFINE one == <<m>>
<1>1. one \in Seq(Msgs) /\ one[1] = m /\ one # <<>>
  OBVIOUS
<1>2. queue' = Put(queue, l, one)
  OBVIOUS
<1> HIDE DEF one
<1>3. queue \in [Requests -> Seq(Msgs)]
  BY DEF CarryInv, OrderType
<1>4. queue'[l] = one /\ \A s \in Requests \ {l} : queue'[s] = queue[s]
  BY <1>2, <1>3 DEF Put
<1>5. ~Queued(l) /\ (Queued(l)' <=> m.owner = l) /\ \A s \in Requests \ {l} : Queued(s)' <=> Queued(s)
  BY <1>1, <1>4 DEF Queued
<1>6. \A s \in Requests \ {l} : Reached(s, g)' = Reached(s, g)
  BY <1>5 DEF Reached
<1>7. g[l] \in Nat /\ Reached(l, g) = g[l] /\ Reached(l, g)' = IF m.owner = l THEN g[l] + 1 ELSE g[l]
  BY <1>5 DEF Reached
<1>8. None \notin Requests
  BY PoolAssumption
<1>9. m.owner = l => m.n = g[l] + 1 /\ sent[l] = g[l] + 1
  BY <1>7 DEF Numbered
<1>10. \A s \in Requests : InOrder(s, delivered'[s], g[s]) /\ (Queued(s)' => queue'[s][1].n = g[s] + 1)
  BY <1>1, <1>4, <1>5, <1>9 DEF Numbered
<1>11. \A s \in Requests : Reached(s, g)' <= sent'[s]
  <2>1. Reached(l, g)' <= sent'[l]
    <3>1. g[l] <= sent[l]
      BY <1>7 DEF Numbered
    <3> QED
      BY <1>7, <1>9, <3>1
  <2>2. \A s \in Requests \ {l} : Reached(s, g)' <= sent'[s]
    BY <1>6 DEF Numbered
  <2> QED
    BY <2>1, <2>2
<1>12. \A d \in Conns \ {c}, s \in Requests : hand'[d].owner = s /\ s = l => m.owner # l
  <2> SUFFICES ASSUME NEW d \in Conns \ {c}, hand[d].owner = l, m.owner = l PROVE FALSE
    OBVIOUS
  <2>1. holder[d] = l /\ holder[c] = l
    BY <1>8 DEF CarryInv, Attributed
  <2> QED
    BY <2>1 DEF SealInv, Given
<1>13. \A d \in Conns, s \in Requests : hand'[d].owner = s => hand'[d].n = Reached(s, g)' + 1 /\ sent'[s] = hand'[d].n
  BY <1>6, <1>7, <1>8, <1>12 DEF Numbered
<1>14. ASSUME NEW s \in Requests
       PROVE  \/ sent'[s] = Reached(s, g)'
              \/ \E d \in Conns : hand'[d].owner = s
              \/ \E d \in Conns : conn'[s] = d /\ reader'[d] = "exit"
  <2>1. CASE s = l /\ m.owner = l
    BY <1>7, <1>9, <2>1
  <2>2. CASE ~(s = l /\ m.owner = l)
    <3>1. Reached(s, g)' = Reached(s, g) /\ hand[c].owner # s
      BY <1>6, <1>7, <1>8, <2>2
    <3>2. CASE sent[s] = Reached(s, g)
      BY <3>1, <3>2
    <3>3. ASSUME NEW d \in Conns, hand[d].owner = s PROVE \E e \in Conns : hand'[e].owner = s
      BY <3>1, <3>3
    <3>4. ASSUME NEW d \in Conns, conn[s] = d, reader[d] = "exit" PROVE \E e \in Conns : conn'[s] = e /\ reader'[e] = "exit"
      BY <3>4
    <3> QED
      BY <3>2, <3>3, <3>4 DEF Numbered
  <2> QED
    BY <2>1, <2>2
<1> QED
  BY <1>10, <1>11, <1>13, <1>14 DEF Numbered


\* Every step hands over the next message of a response, or none.
LEMMA NumStep ==
  ASSUME TypeOK, LeaseInv, SealInv, CarryInv, NEW g \in [Requests -> Nat], Numbered(g), [Next]_vars
  PROVE  \E h \in [Requests -> Nat] : Numbered(h)'
<1>1. ASSUME NEW r \in Requests, RequestStep(r) PROVE \E h \in [Requests -> Nat] : Numbered(h)'
  <2>1. CASE PrefixTake(r) \/ ReadQueued(r)
    <3>1. PICK m : m = Head(queue[r])
      OBVIOUS
    <3> QED
      BY <2>1, <3>1, TakeSteps, NumTake
  <2>2. CASE AcquireReuse(r) \/ AcquireDial(r)
    <3>1. /\ pc[r] = "acquire" /\ UNCHANGED <<queue, delivered, hand, sent, reader>>
          /\ \E c : conn' = Put(conn, r, c)
      BY <2>2 DEF AcquireReuse, AcquireDial, readerVars, wireVars, leaseVars
    <3>2. \A s \in Requests \ {r} : conn'[s] = conn[s]
      BY <3>1 DEF TypeOK, Put
    <3>3. sent[r] = 0 /\ ~Queued(r)
      BY <3>1 DEF CarryInv, Fresh, Early, Unserved
    <3>4. Reached(r, g) \in Nat /\ Reached(r, g) <= sent[r]
      BY <3>3 DEF Reached, Numbered
    <3>5. Reached(r, g) = sent[r]
      BY <3>3, <3>4
    <3> QED
      BY <3>1, <3>2, <3>5, NumberedFrame
  <2>3. CASE DialDone(r)
    <3>1. /\ pc[r] = "dialing" /\ UNCHANGED <<queue, delivered, hand, sent, conn>>
          /\ reader' = Put(reader, conn[r], "top")
      BY <2>3 DEF DialDone, wireVars, leaseVars
    <3>2. reader[conn[r]] = "none"
      BY <3>1 DEF SealInv, Unread, Dialing
    <3>3. \A c \in Conns : reader[c] = "exit" => reader'[c] = "exit"
      BY <3>1, <3>2 DEF TypeOK, Put
    <3> QED
      BY <3>1, <3>3, NumberedFrame
  <2>4. CASE UNCHANGED <<queue, delivered, hand, sent, conn, reader>>
    BY <2>4, NumberedFrame
  <2>5. CASE WriteCreate(r) \/ WriteFail(r) \/ PrefixBlock(r) \/ PrefixFail(r) \/ ReadPrefetched(r) \/ ReadBlock(r)
    BY <2>4, <2>5 DEF WriteCreate, WriteFail, PrefixBlock, PrefixFail, ReadPrefetched, ReadBlock,
       readerVars, wireVars, leaseVars
  <2>6. CASE AcquirePark(r) \/ AcquireAbort(r) \/ DialFail(r) \/ DialAfterClose(r)
    BY <2>4, <2>6 DEF AcquirePark, AcquireAbort, DialFail, DialAfterClose, readerVars, wireVars, leaseVars
  <2>7. CASE Drain(r) \/ CloseBegin(r) \/ CloseRelease(r) \/ FinishCapture(r) \/ Cancel(r) \/ CancelRelease(r)
             \/ \E reason \in {"timeout", "cancel", "gone"} : ReadAbort(r, reason)
    BY <2>4, <2>7 DEF Drain, CloseBegin, CloseRelease, FinishCapture, Cancel, CancelRelease, ReadAbort,
       readerVars, wireVars, leaseVars
  <2> QED
    BY <1>1, <2>1, <2>2, <2>3, <2>5, <2>6, <2>7 DEF RequestStep
<1>2. ASSUME NEW c \in Conns, ReceiverStep(c) PROVE \E h \in [Requests -> Nat] : Numbered(h)'
  <2>1. hand \in [Conns -> Msgs \cup {ReadFailure, Nothing}]
    BY DEF CarryInv, OrderType
  <2>2. CASE Capture(c) \/ SettleReserved(c) \/ AwaitRelease(c)
    <3>1. /\ UNCHANGED <<queue, delivered, hand, sent, conn>> /\ reader[c] # "exit"
          /\ \E a : reader' = Put(reader, c, a)
      BY <2>2 DEF Capture, SettleReserved, AwaitRelease, ReceiverExits, wireVars, leaseVars, reqVars
    <3>2. \A d \in Conns : reader[d] = "exit" => reader'[d] = "exit"
      BY <3>1 DEF TypeOK, Put
    <3> QED
      BY <3>1, <3>2, NumberedFrame
  <2>3. CASE ReadStray(c) \/ ReadFail(c)
    <3>1. /\ UNCHANGED <<queue, delivered, sent, conn>> /\ reader[c] = "reading" /\ reader' = Put(reader, c, "got")
          /\ \E v : v.owner = None /\ hand' = Put(hand, c, v)
      BY <2>3, HandKinds DEF ReadStray, ReadFail, wireVars, leaseVars, reqVars
    <3>2. hand'[c].owner = None /\ \A d \in Conns \ {c} : hand'[d] = hand[d] /\ reader'[d] = reader[d]
      BY <2>1, <3>1 DEF TypeOK, Put
    <3>3. hand[c].owner = None /\ reader[c] # "exit"
      BY <3>1 DEF CarryInv, Attributed
    <3> QED
      BY <3>1, <3>2, <3>3, NumDrop
  <2>4. ASSUME ReceiverExits(c), hand' = Put(hand, c, Nothing), UNCHANGED <<queue, delivered, sent, conn>>
        PROVE  \E h \in [Requests -> Nat] : Numbered(h)'
    <3>1. /\ hand'[c].owner = None /\ reader'[c] = "exit"
          /\ \A d \in Conns \ {c} : hand'[d] = hand[d] /\ reader'[d] = reader[d]
      BY <2>1, <2>4, HandKinds DEF ReceiverExits, TypeOK, Put
    <3> QED
      BY <2>4, <3>1, NumDrop
  <2>5. ASSUME NEW l \in Requests, NEW m, m = hand[c], m \in Msgs, m.owner \in {l, None}, queue[l] = <<>>,
               queue' = Put(queue, l, <<m>>), UNCHANGED <<delivered, sent, conn>>, hand' = Put(hand, c, Nothing),
               reader[c] # "exit", NEW a, reader' = Put(reader, c, a)
        PROVE  \E h \in [Requests -> Nat] : Numbered(h)'
    <3>1. hand'[c].owner = None /\ \A d \in Conns \ {c} : hand'[d] = hand[d] /\ reader'[d] = reader[d]
      BY <2>1, <2>5, HandKinds DEF TypeOK, Put
    <3> QED
      BY <2>5, <3>1, NumEnqueue
  <2>6. CASE DeliverReserved(c)
    <3>1. reader[c] = "reserve" /\ hand' = Put(hand, c, Nothing) /\ UNCHANGED <<delivered, sent, conn>>
      BY <2>6 DEF DeliverReserved, reqVars
    <3>2. CASE ReceiverExits(c) /\ UNCHANGED queue
      BY <2>4, <3>1, <3>2
    <3>3. CASE queue[seen[c]] = <<>> /\ queue' = Put(queue, seen[c], <<hand[c]>>) /\ reader' = Put(reader, c, "settle")
      <4>1. PICK l, m : l = seen[c] /\ m = hand[c]
        OBVIOUS
      <4>2. l \in Requests /\ m \in Msgs /\ m.owner \in {l, None}
        BY <3>1, <4>1 DEF SealInv, Stays, CarryInv, Attributed
      <4>3. queue[l] = <<>> /\ queue' = Put(queue, l, <<m>>)
        BY <3>3, <4>1
      <4> QED
        BY <2>5, <3>1, <3>3, <4>1, <4>2, <4>3
    <3> QED
      BY <2>6, <3>2, <3>3 DEF DeliverReserved
  <2>7. CASE Admit(c)
    <3>1. /\ reader[c] = "got" /\ hand' = IF reader'[c] = "reserve" THEN hand ELSE Put(hand, c, Nothing)
          /\ UNCHANGED <<delivered, sent, conn>>
      BY <2>7 DEF Admit
    <3>2. CASE ReceiverExits(c) /\ UNCHANGED leaseVars
      <4>1. reader'[c] = "exit"
        BY <3>2 DEF ReceiverExits, TypeOK, Put
      <4>2. hand' = Put(hand, c, Nothing) /\ queue' = queue
        BY <3>1, <3>2, <4>1 DEF leaseVars
      <4> QED
        BY <2>4, <3>1, <3>2, <4>2
    <3>3. CASE /\ LeaseFor(c) # None /\ holder[c] = LeaseFor(c) /\ hand[c] # ReadFailure
               /\ Enqueue(c, LeaseFor(c), hand[c])
      <4>1. PICK l, m : l = LeaseFor(c) /\ m = hand[c]
        OBVIOUS
      <4>2. l \in Requests /\ m \in Msgs /\ m.owner \in {l, None}
        BY <3>1, <3>3, <4>1, NamedLease DEF CarryInv, Attributed
      <4>3. CASE queue[l] = <<>> /\ queue' = Put(queue, l, <<m>>) /\ reader' = Put(reader, c, AfterDelivery(terminal'[l]))
        <5>1. PICK a : a = AfterDelivery(terminal'[l])
          OBVIOUS
        <5>2. reader' = Put(reader, c, a) /\ a # "reserve"
          BY <4>3, <5>1 DEF AfterDelivery
        <5>3. reader'[c] = a
          BY <5>2 DEF TypeOK, Put
        <5>4. hand' = Put(hand, c, Nothing)
          BY <3>1, <5>2, <5>3
        <5> QED
          BY <2>5, <3>1, <4>1, <4>2, <4>3, <5>2, <5>4
      <4>4. CASE UNCHANGED queue /\ reader' = Put(reader, c, "reserve")
        <5>1. hand' = hand
          BY <3>1, <4>4 DEF TypeOK, Put
        <5>2. \A d \in Conns : reader[d] = "exit" => reader'[d] = "exit"
          BY <3>1, <4>4 DEF TypeOK, Put
        <5> QED
          BY <3>1, <4>4, <5>1, <5>2, NumberedFrame
      <4> QED
        BY <3>3, <4>1, <4>3, <4>4 DEF Enqueue
    <3> QED
      BY <2>7, <3>2, <3>3 DEF Admit
  <2> QED
    BY <1>2, <2>2, <2>3, <2>6, <2>7, NumRead DEF ReceiverStep
<1>3. CASE UNCHANGED <<queue, delivered, hand, sent, conn, reader>>
  BY <1>3, NumberedFrame
<1>4. ASSUME NEW c \in Conns, IdleTimerFires(c) \/ IdleTimerRuns(c)
      PROVE  UNCHANGED <<queue, delivered, hand, sent, conn, reader>>
  BY <1>4 DEF IdleTimerFires, IdleTimerRuns, readerVars, wireVars, leaseVars, reqVars
<1>5. CASE Age \/ ClosePool \/ UNCHANGED vars
  BY <1>3, <1>5 DEF Age, ClosePool, vars, readerVars, wireVars, leaseVars, reqVars
<1> QED
  BY <1>1, <1>2, <1>3, <1>4, <1>5 DEF Next

\* Messages are attributed and numbered in every reachable state.
THEOREM MessagesAreNumbered == Spec => []OrderInv
<1>1. Init => OrderInv
  <2>1. [r \in Requests |-> 0] \in [Requests -> Nat]
    OBVIOUS
  <2> QED
    BY <2>1, CarryInit DEF OrderInv
<1>2. TypeOK /\ LeaseInv /\ SealInv /\ OrderInv /\ [Next]_vars => OrderInv'
  <2> SUFFICES ASSUME TypeOK, LeaseInv, SealInv, OrderInv, [Next]_vars PROVE OrderInv'
    OBVIOUS
  <2>1. CarryInv'
    BY CarryStep DEF OrderInv
  <2>2. PICK g \in [Requests -> Nat] : Numbered(g)
    BY DEF OrderInv
  <2>3. \E h \in [Requests -> Nat] : Numbered(h)'
    BY <2>2, NumStep DEF OrderInv
  <2> QED
    BY <2>1, <2>3 DEF OrderInv
<1> QED
  BY <1>1, <1>2, PoolIsSound, ReceiversAreKnown, PTL DEF Spec

\* A response reaches its own request only, in order and without a gap.
THEOREM ResponsesAreInOrder == Spec => []OwnResponseInOrder
<1>1. OrderInv => OwnResponseInOrder
  <2> SUFFICES ASSUME OrderInv, NEW r \in Requests
               PROVE  /\ \A i \in DOMAIN delivered[r] : delivered[r][i].owner \in {r, None}
                      /\ \A i, j \in DOMAIN delivered[r] :
                           Own(r, delivered[r], i) /\ Own(r, delivered[r], j) /\ i < j => delivered[r][i].n < delivered[r][j].n
                      /\ \A i \in DOMAIN delivered[r] : Own(r, delivered[r], i) =>
                           \A k \in 1..delivered[r][i].n : \E j \in 1..i : Own(r, delivered[r], j) /\ delivered[r][j].n = k
    BY DEF OwnResponseInOrder, Own
  <2>1. PICK g \in [Requests -> Nat] : Numbered(g)
    BY DEF OrderInv
  <2>2. InOrder(r, delivered[r], g[r])
    BY <2>1 DEF Numbered
  <2> QED
    BY <2>2 DEF InOrder
<1> QED
  BY <1>1, MessagesAreNumbered, PTL
=============================================================================
