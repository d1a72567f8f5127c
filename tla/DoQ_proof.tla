----------------------------- MODULE DoQ_proof -----------------------------
(***************************************************************************)
(* Proofs about DoQ, for any number of queries, connections and dials.     *)
(***************************************************************************)
EXTENDS DoQ, TLAPS

LEMMA IdleType == Idle \in Query
BY DEF Idle, Query

\* What Becomes does to the function of queries.
LEMMA QuerySet ==
  ASSUME QueryTypes, NEW q \in Queries, NEW r, Becomes(q, r)
  PROVE  /\ query'[q] = r
         /\ \A p \in Queries \ {q} : query'[p] = query[p]
         /\ r \in Query => QueryTypes'
BY DEF QueryTypes, Becomes

LEMMA SeenType ==
  ASSUME QueryTypes, NEW c
  PROVE  /\ Seen(c) \in [Queries -> Query]
         /\ \A q \in Queries : /\ Seen(c)[q].on = query[q].on
                             /\ Seen(c)[q].got = query[q].got
                             /\ Seen(c)[q].pc = query[q].pc
<1>1. SUFFICES ASSUME NEW q \in Queries
      PROVE  LET r == [query[q] EXCEPT !.ok = @ \/ (At(q, "exchange") /\ query[q].on = c)]
             IN  r \in Query /\ r.on = query[q].on /\ r.got = query[q].got /\ r.pc = query[q].pc
  BY DEF Seen
<1>2. (query[q].ok \/ (At(q, "exchange") /\ query[q].on = c)) \in BOOLEAN
  BY DEF QueryTypes, Query
<1>3. QED
  BY <1>2 DEF QueryTypes, Query

\* A step of a query leaves every query record well typed.
LEMMA QueryStepTypes ==
  ASSUME TypeOK, NEW q \in Queries, QueryStep(q)
  PROVE  QueryTypes'
<1> USE DEF TypeOK, ConnTypes
<1>0. query[q] \in Query
  BY DEF QueryTypes
<1>1. CASE Ask(q)
  <2>1. [query[q] EXCEPT !.pc = "getConn"] \in Query
    BY <1>0 DEF Query
  <2>2. QED
    BY <1>1, <2>1, QuerySet DEF Ask
<1>2. CASE ReuseConn(q)
  <2>1. [query[q] EXCEPT !.pc = "loadCheck", !.on = conn] \in Query
    BY <1>0 DEF Query
  <2>2. QED
    BY <1>2, <2>1, QuerySet DEF ReuseConn
<1>3. CASE UseConn(q)
  <2>1. [query[q] EXCEPT !.pc = "exchange", !.fresh = FALSE, !.ok = FALSE] \in Query
    BY <1>0 DEF Query
  <2>2. QED
    BY <1>3, <2>1, QuerySet DEF UseConn
<1>4. CASE AwaitVerdict(q)
  <2>1. [query[q] EXCEPT !.pc = "waitCheck"] \in Query
    BY <1>0 DEF Query
  <2>2. QED
    BY <1>4, <2>1, QuerySet DEF AwaitVerdict
<1>5. CASE JoinDial(q)
  <2>1. [query[q] EXCEPT !.pc = "waitDial", !.call = dialing] \in Query
    BY <1>0 DEF Query
  <2>2. QED
    BY <1>5, <2>1, QuerySet DEF JoinDial
<1>6. ASSUME NEW k \in Calls, StartDial(q, k) PROVE QueryTypes'
  <2>1. [query[q] EXCEPT !.pc = "waitDial", !.call = k] \in Query
    BY <1>0 DEF Query
  <2>2. QED
    BY <1>6, <2>1, QuerySet DEF StartDial, GoDial
<1>7. CASE TakeDialed(q)
  <2>1. [query[q] EXCEPT !.pc = "exchange", !.on = query[q].got, !.got = Pending,
                         !.fresh = TRUE, !.ok = FALSE] \in Query
    BY <1>0, <1>7 DEF Query, TakeDialed
  <2>2. QED
    BY <1>7, <2>1, QuerySet DEF TakeDialed
<1>8. CASE \/ FailFast(q) \/ DialedFailed(q) \/ GiveUp(q) \/ GiveUpOnDead(q)
           \/ GiveUpOnReset(q) \/ LeaveConn(q) \/ SuspectConn(q)
  BY <1>8, IdleType, QuerySet DEF FailFast, DialedFailed, GiveUp, GiveUpOnDead, GiveUpOnReset,
     LeaveConn, SuspectConn, Return
<1>9. CASE Answered(q)
  BY <1>9, IdleType, SeenType DEF Answered, QueryTypes
<1>10. CASE RetryOnDead(q)
  <2>1. [Idle EXCEPT !.pc = "getConn", !.attempt = query[q].attempt + 1] \in Query
    <3>1. query[q].attempt + 1 \in 0..1
      BY <1>10 DEF RetryOnDead
    <3>2. QED
      BY <3>1, IdleType DEF Query
  <2>2. QED
    BY <1>10, <2>1, QuerySet DEF RetryOnDead, Retry
<1>11. CASE CtxEnds(q)
  <2>1. [query[q] EXCEPT !.done = TRUE] \in Query
    BY <1>0 DEF Query
  <2>2. QED
    BY <1>11, <2>1, QuerySet DEF CtxEnds
<1>12. QED
  BY <1>1, <1>2, <1>3, <1>4, <1>5, <1>6, <1>7, <1>8, <1>9, <1>10, <1>11
     DEF QueryStep, GetConn, Exchange

\* ... and the rest of the state too.
LEMMA QueryStepOthers ==
  ASSUME TypeOK, NEW q \in Queries, QueryStep(q)
  PROVE  ConnTypes' /\ CheckTypes' /\ CallTypes'
<1> USE DEF TypeOK, ConnTypes, CheckTypes, CallTypes, slot, wire, calls
<1>1. CASE Ask(q) \/ GiveUp(q) \/ CtxEnds(q)
  BY <1>1 DEF Ask, GiveUp, CtxEnds
<1>2. CASE GetConn(q)
  BY <1>2 DEF GetConn, ReuseConn, UseConn, AwaitVerdict, FailFast, JoinDial, StartDial, GoDial,
              TakeDialed, DialedFailed
<1>3. CASE GiveUpOnReset(q) \/ LeaveConn(q) \/ RetryOnDead(q) \/ GiveUpOnDead(q)
  BY <1>3 DEF GiveUpOnReset, LeaveConn, RetryOnDead, Retry, GiveUpOnDead, Unlinked
<1>4. CASE Answered(q)
  BY <1>4 DEF Answered
<1>5. CASE SuspectConn(q)
  BY <1>5 DEF SuspectConn
<1>6. QED
  BY <1>1, <1>2, <1>3, <1>4, <1>5 DEF QueryStep, Exchange

\* The type invariant: every variable stays in its range; in particular
\* ExchangeTimed's attempt counter never passes 1 (doq.go:456-480).
THEOREM TypeCorrect == Spec => []TypeOK
<1>1. Init => TypeOK
  <2> SUFFICES ASSUME Init PROVE TypeOK
    OBVIOUS
  <2>1. ConnTypes
    BY DEF Init, ConnTypes
  <2>2. CheckTypes
    BY DEF Init, CheckTypes
  <2>3. CallTypes
    BY DEF Init, CallTypes
  <2>4. QueryTypes
    BY IdleType DEF Init, QueryTypes
  <2>5. QED
    BY <2>1, <2>2, <2>3, <2>4 DEF TypeOK
<1>2. TypeOK /\ [Next]_vars => TypeOK'
  <2> SUFFICES ASSUME TypeOK, [Next]_vars PROVE TypeOK'
    OBVIOUS
  <2> USE DEF TypeOK, ConnTypes, CheckTypes, CallTypes, Dead, slot, wire, calls
  <2>1. ASSUME NEW q \in Queries, QueryStep(q) PROVE TypeOK'
    BY <2>1, QueryStepTypes, QueryStepOthers
  <2>2. ASSUME UNCHANGED query PROVE QueryTypes'
    BY <2>2 DEF QueryTypes
  <2>3. ASSUME NEW k \in Calls, Connect(k) PROVE TypeOK'
    BY <2>2, <2>3 DEF Connect, ConnectOk, ConnectFail
  <2>4. ASSUME NEW k \in Calls, DialEnds(k) PROVE TypeOK'
    <3>1. CASE HoldFailure(k) \/ CloseDialed(k) \/ Install(k)
      BY <2>2, <3>1 DEF HoldFailure, CloseDialed, Install, Locked
    <3>2. CASE Publish(k)
      <4>1. ASSUME NEW q \in Queries
            PROVE  [query[q] EXCEPT !.call = NoCall, !.got = res[k]] \in Query
        <5>1. query[q] \in Query
          BY DEF QueryTypes
        <5>2. QED
          BY <5>1 DEF Query
      <4>2. QueryTypes'
        BY <3>2, <4>1 DEF Publish, QueryTypes
      <4>3. QED
        BY <3>2, <4>2 DEF Publish
    <3>3. QED
      BY <2>4, <3>1, <3>2 DEF DialEnds
  <2>5. ASSUME NEW c \in Conns, CheckStep(c) PROVE TypeOK'
    <3>1. CASE ProbeAnswered(c)
      <4>1. QueryTypes'
        BY <3>1, SeenType DEF ProbeAnswered, QueryTypes
      <4>2. QED
        BY <3>1, <4>1 DEF ProbeAnswered, Goes
    <3>2. CASE ProbeOutvoted(c) \/ Condemn(c)
      BY <2>2, <3>2 DEF ProbeOutvoted, Condemn, Goes
    <3>3. CASE Unlink(c) \/ CloseCondemned(c)
      BY <2>2, <3>3 DEF Unlink, CloseCondemned, Unlinked, Goes
    <3>4. CASE FinishCheck(c)
      <4>1. ASSUME NEW q \in Queries
            PROVE  [query[q] EXCEPT !.pc = "getConn", !.on = NoConn] \in Query
        <5>1. query[q] \in Query
          BY DEF QueryTypes
        <5>2. QED
          BY <5>1 DEF Query
      <4>2. QueryTypes'
        BY <3>4, <4>1 DEF FinishCheck, QueryTypes
      <4>3. QED
        BY <3>4, <4>2 DEF FinishCheck, Goes
    <3>5. QED
      BY <2>5, <3>1, <3>2, <3>3, <3>4 DEF CheckStep
  <2>6. ASSUME NEW c \in Conns, Network(c) PROVE TypeOK'
    BY <2>2, <2>6 DEF Network, PathLost, PeerCloses
  <2>7. CASE HoldExpires \/ CancelClose
    BY <2>2, <2>7 DEF HoldExpires, CancelClose
  <2>8. CASE CloseLocked
    BY <2>2, <2>8 DEF CloseLocked
  <2>9. CASE UNCHANGED vars
    BY <2>2, <2>9 DEF vars
  <2>10. QED
    BY <2>1, <2>3, <2>4, <2>5, <2>6, <2>7, <2>8, <2>9 DEF Next
<1>3. QED
  BY <1>1, <1>2, PTL DEF Spec

\* The steps of a query that leave the connection slot and the dials alone.
QuietStep(q) ==
  \/ Ask(q) \/ ReuseConn(q) \/ UseConn(q) \/ AwaitVerdict(q) \/ TakeDialed(q)
  \/ DialedFailed(q) \/ GiveUp(q) \/ Answered(q) \/ GiveUpOnReset(q)
  \/ LeaveConn(q) \/ SuspectConn(q) \/ CtxEnds(q)

\* Those that may unlink a connection.
UnlinkingStep(q) == FailFast(q) \/ JoinDial(q) \/ RetryOnDead(q) \/ GiveUpOnDead(q)

LEMMA QuietQuery ==
  ASSUME NEW q \in Queries, QuietStep(q)
  PROVE  UNCHANGED <<conn, dialing, closing, live, phase, res>>
BY DEF QuietStep, Ask, ReuseConn, UseConn, AwaitVerdict, TakeDialed, DialedFailed, GiveUp,
       Answered, GiveUpOnReset, LeaveConn, SuspectConn, CtxEnds, slot, wire, calls

\* The connection unlinked by a query is dead.
LEMMA UnlinkingQuery ==
  ASSUME NEW q \in Queries, UnlinkingStep(q)
  PROVE  /\ UNCHANGED <<dialing, closing, live, check, okDuring, phase, res>>
         /\ conn' = conn \/ (conn' = NoConn /\ (conn # NoConn => Dead(conn)))
BY DEF UnlinkingStep, FailFast, JoinDial, RetryOnDead, Retry, GiveUpOnDead, Unlinked, wire,
       calls, Unusable, Dead

\* The steps of Next, one by one.
LEMMA StepCases ==
  ASSUME Next
  PROVE  \/ \E q \in Queries :
              QuietStep(q)
         \/ \E q \in Queries :
              UnlinkingStep(q)
         \/ \E q \in Queries, k \in Calls : StartDial(q, k)
         \/ \E k \in Calls, c \in Conns : ConnectOk(k, c)
         \/ \E k \in Calls : \/ ConnectFail(k) \/ HoldFailure(k) \/ CloseDialed(k)
                             \/ Install(k) \/ Publish(k)
         \/ \E c \in Conns : CheckStep(c) \/ Network(c)
         \/ HoldExpires \/ CancelClose \/ CloseLocked
BY DEF Next, QueryStep, GetConn, Exchange, Connect, DialEnds, QuietStep, UnlinkingStep

\* SingleFlight is inductive relative to the types.
LEMMA SingleFlightStep ==
  ASSUME TypeOK, SingleFlight, [Next]_vars
  PROVE  SingleFlight'
<1> USE DoQAssumption DEF DoQAssumption
<1> USE DEF SingleFlight, TypeOK, ConnTypes, CallTypes
<1>1. ASSUME NEW q \in Queries, QuietStep(q)
      PROVE  SingleFlight'
  BY <1>1, QuietQuery
<1>2. ASSUME NEW q \in Queries, UnlinkingStep(q)
      PROVE  SingleFlight'
  BY <1>2, UnlinkingQuery
<1>3. ASSUME NEW q \in Queries, NEW k \in Calls, StartDial(q, k) PROVE SingleFlight'
  BY <1>3 DEF StartDial, GoDial
<1>4. ASSUME NEW k \in Calls, NEW c \in Conns, ConnectOk(k, c) PROVE SingleFlight'
  BY <1>4 DEF ConnectOk, slot
<1>5. ASSUME NEW k \in Calls,
             ConnectFail(k) \/ HoldFailure(k) \/ CloseDialed(k) \/ Install(k) \/ Publish(k)
      PROVE  SingleFlight'
  <2>1. CASE ConnectFail(k)
    BY <2>1 DEF ConnectFail, slot
  <2>2. CASE HoldFailure(k)
    BY <2>2 DEF HoldFailure, Locked
  <2>3. CASE CloseDialed(k)
    BY <2>3 DEF CloseDialed, Locked
  <2>4. CASE Install(k)
    BY <2>4 DEF Install, Locked
  <2>5. CASE Publish(k)
    BY <2>5 DEF Publish, slot
  <2>6. QED
    BY <1>5, <2>1, <2>2, <2>3, <2>4, <2>5
<1>6. ASSUME NEW c \in Conns, CheckStep(c) \/ Network(c) PROVE SingleFlight'
  BY <1>6 DEF CheckStep, ProbeAnswered, ProbeOutvoted, Condemn, Unlink, CloseCondemned,
              FinishCheck, Network, PathLost, PeerCloses, slot, calls, Goes, Seen, Unlinked
<1>7. CASE HoldExpires \/ CancelClose \/ CloseLocked
  BY <1>7 DEF HoldExpires, CancelClose, CloseLocked, calls
<1>8. CASE UNCHANGED vars
  BY <1>8 DEF vars, slot, calls
<1>9. QED
  BY StepCases, <1>1, <1>2, <1>3, <1>4, <1>5, <1>6, <1>7, <1>8

\* At most one dial is ever under way, and never beside an installed
\* connection: the dial that ends replaces nothing (doq.go:200-211, 233-236).
THEOREM OneDial == Spec => []SingleFlight
<1>1. Init => SingleFlight
  BY DoQAssumption DEF DoQAssumption, Init, SingleFlight
<1>2. TypeOK /\ SingleFlight /\ [Next]_vars => SingleFlight'
  BY SingleFlightStep
<1>3. QED
  BY <1>1, <1>2, TypeCorrect, PTL DEF Spec

-----------------------------------------------------------------------------
\* A query only ever takes up the installed connection or the one its dial
\* published.
LEMMA QueryReaches ==
  ASSUME NEW q \in Queries, TypeOK, QueryStep(q)
  PROVE  /\ \A p \in Queries : query'[p].on \in {query[p].on, query[p].got, conn, NoConn}
         /\ \A p \in Queries : query'[p].got \in {query[p].got, Pending}
<1> USE DEF TypeOK
<1> DEFINE Reach(r) == /\ r.on \in {query[q].on, query[q].got, conn, NoConn}
                       /\ r.got \in {query[q].got, Pending}
<1>0. query[q] \in Query
  BY DEF QueryTypes
<1>1. ASSUME NEW r, Becomes(q, r), Reach(r)
      PROVE  /\ \A p \in Queries : query'[p].on \in {query[p].on, query[p].got, conn, NoConn}
             /\ \A p \in Queries : query'[p].got \in {query[p].got, Pending}
  BY <1>1, QuerySet
<1>2. Reach(Idle)
  BY DEF Idle
<1> HIDE DEF Reach
<1>3. CASE \/ FailFast(q) \/ DialedFailed(q) \/ GiveUp(q) \/ GiveUpOnDead(q)
           \/ GiveUpOnReset(q) \/ LeaveConn(q) \/ SuspectConn(q)
  BY <1>1, <1>2, <1>3 DEF FailFast, DialedFailed, GiveUp, GiveUpOnDead, GiveUpOnReset,
     LeaveConn, SuspectConn, Return
<1>4. CASE Ask(q) \/ AwaitVerdict(q)
  <2>1. Reach([query[q] EXCEPT !.pc = "getConn"]) /\ Reach([query[q] EXCEPT !.pc = "waitCheck"])
    BY <1>0 DEF Query, Reach
  <2>2. QED
    BY <1>1, <1>4, <2>1 DEF Ask, AwaitVerdict
<1>5. CASE ReuseConn(q)
  <2>1. Reach([query[q] EXCEPT !.pc = "loadCheck", !.on = conn])
    BY <1>0 DEF Query, Reach
  <2>2. QED
    BY <1>1, <1>5, <2>1 DEF ReuseConn
<1>6. CASE UseConn(q)
  <2>1. Reach([query[q] EXCEPT !.pc = "exchange", !.fresh = FALSE, !.ok = FALSE])
    BY <1>0 DEF Query, Reach
  <2>2. QED
    BY <1>1, <1>6, <2>1 DEF UseConn
<1>7. CASE JoinDial(q)
  <2>1. Reach([query[q] EXCEPT !.pc = "waitDial", !.call = dialing])
    BY <1>0 DEF Query, Reach
  <2>2. QED
    BY <1>1, <1>7, <2>1 DEF JoinDial
<1>8. ASSUME NEW k \in Calls, StartDial(q, k)
      PROVE  /\ \A p \in Queries : query'[p].on \in {query[p].on, query[p].got, conn, NoConn}
             /\ \A p \in Queries : query'[p].got \in {query[p].got, Pending}
  <2>1. Reach([query[q] EXCEPT !.pc = "waitDial", !.call = k])
    BY <1>0 DEF Query, Reach
  <2>2. QED
    BY <1>1, <1>8, <2>1 DEF StartDial, GoDial
<1>9. CASE TakeDialed(q)
  <2>1. Reach([query[q] EXCEPT !.pc = "exchange", !.on = query[q].got, !.got = Pending,
                               !.fresh = TRUE, !.ok = FALSE])
    BY <1>0 DEF Query, Reach
  <2>2. QED
    BY <1>1, <1>9, <2>1 DEF TakeDialed
<1>10. CASE Answered(q)
  <2>1. query' = [Seen(query[q].on) EXCEPT ![q] = Idle]
    BY <1>10 DEF Answered
  <2>2. QED
    BY <2>1, SeenType DEF Idle
<1>11. CASE RetryOnDead(q)
  <2>1. Reach([Idle EXCEPT !.pc = "getConn", !.attempt = query[q].attempt + 1])
    BY DEF Idle, Reach
  <2>2. QED
    BY <1>1, <1>11, <2>1 DEF RetryOnDead, Retry
<1>12. CASE CtxEnds(q)
  <2>1. Reach([query[q] EXCEPT !.done = TRUE])
    BY <1>0 DEF Query, Reach
  <2>2. QED
    BY <1>1, <1>12, <2>1 DEF CtxEnds
<1>13. QED
  BY <1>3, <1>4, <1>5, <1>6, <1>7, <1>8, <1>9, <1>10, <1>11, <1>12
     DEF QueryStep, GetConn, Exchange

\* A query starts a check only on a connection it holds and where none runs; it
\* never takes back what a running check has seen.
LEMMA QueryChecks ==
  ASSUME NEW q \in Queries, TypeOK, QuietStep(q)
  PROVE  /\ \A c \in Conns : check'[c] # check[c] =>
              check[c] = "none" /\ check'[c] = "probing" /\ query[q].on = c
         /\ \A c \in Conns : okDuring[c] /\ check[c] # "none" => okDuring'[c]
<1> USE DEF TypeOK, CheckTypes
<1>1. CASE Answered(q)
  <2>1. /\ UNCHANGED check
        /\ okDuring' = [okDuring EXCEPT ![query[q].on] = (check[query[q].on] # "none")]
    BY <1>1 DEF Answered
  <2>2. QED
    BY <2>1
<1>2. CASE SuspectConn(q)
  BY <1>2 DEF SuspectConn
<1>3. CASE ~Answered(q) /\ ~SuspectConn(q)
  BY <1>3 DEF QuietStep, Ask, ReuseConn, UseConn, AwaitVerdict, TakeDialed, DialedFailed,
     GiveUp, GiveUpOnReset, LeaveConn, CtxEnds, wire
<1>4. QED
  BY <1>1, <1>2, <1>3

\* NoLeak is inductive relative to the types and SingleFlight.
LEMMA NoLeakStep ==
  ASSUME TypeOK, SingleFlight, NoLeak, [Next]_vars
  PROVE  NoLeak'
<1> USE DoQAssumption DEF DoQAssumption
<1> USE DEF NoLeak, Dead, TypeOK, ConnTypes, CheckTypes, CallTypes
<1>1. ASSUME NEW q \in Queries, QuietStep(q)
      PROVE  NoLeak'
  <2>1. UNCHANGED <<conn, dialing, closing, live, phase, res>>
    BY <1>1, QuietQuery
  <2>2. \A c \in Conns : check[c] = "closing" => check'[c] = "closing"
    BY <1>1, QueryChecks
  <2>3. QED
    BY <2>1, <2>2
<1>2. ASSUME NEW q \in Queries, UnlinkingStep(q)
      PROVE  NoLeak'
  BY <1>2, UnlinkingQuery
<1>3. ASSUME NEW q \in Queries, NEW k \in Calls, StartDial(q, k) PROVE NoLeak'
  BY <1>3 DEF StartDial, Unusable, wire, GoDial
<1>4. ASSUME NEW k \in Calls, NEW d \in Conns, ConnectOk(k, d) PROVE NoLeak'
  BY <1>4 DEF ConnectOk, slot, wire
<1>5. ASSUME NEW k \in Calls,
             ConnectFail(k) \/ HoldFailure(k) \/ CloseDialed(k) \/ Install(k) \/ Publish(k)
      PROVE  NoLeak'
  <2>1. CASE ConnectFail(k)
    BY <2>1 DEF ConnectFail, slot, wire
  <2>2. CASE HoldFailure(k)
    BY <2>2 DEF HoldFailure, wire, Locked
  <2>3. CASE CloseDialed(k)
    BY <2>3 DEF CloseDialed, wire, Locked
  <2>4. CASE Install(k)
    \* SingleFlight: there was no connection to overwrite, and no other dial
    \* holds one.
    <3>1. conn = NoConn /\ \A j \in Calls : phase[j] = "connected" => j = k
      BY <2>4 DEF Install, SingleFlight, Locked
    <3>2. QED
      BY <2>4, <3>1 DEF Install, wire, Locked
  <2>5. CASE Publish(k)
    BY <2>5 DEF Publish, slot, wire
  <2>6. QED
    BY <1>5, <2>1, <2>2, <2>3, <2>4, <2>5
<1>6. ASSUME NEW d \in Conns, CheckStep(d) PROVE NoLeak'
  <2>1. CASE ProbeAnswered(d) \/ ProbeOutvoted(d) \/ Condemn(d) \/ FinishCheck(d)
    BY <2>1 DEF ProbeAnswered, ProbeOutvoted, Condemn, FinishCheck, slot, calls, Goes, Seen
  <2>2. CASE Unlink(d)
    BY <2>2 DEF Unlink, calls, Goes, Unlinked
  <2>3. CASE CloseCondemned(d)
    BY <2>3 DEF CloseCondemned, slot, calls, Goes
  <2>4. QED
    BY <1>6, <2>1, <2>2, <2>3 DEF CheckStep
<1>7. ASSUME NEW d \in Conns, Network(d) PROVE NoLeak'
  BY <1>7 DEF Network, PathLost, PeerCloses, slot, wire, calls
<1>8. CASE HoldExpires \/ CancelClose \/ CloseLocked
  BY <1>8 DEF HoldExpires, CancelClose, CloseLocked, calls, wire
<1>9. CASE UNCHANGED vars
  BY <1>9 DEF vars, slot, calls, wire
<1>10. QED
  BY StepCases, <1>1, <1>2, <1>3, <1>4, <1>5, <1>6, <1>7, <1>8, <1>9

\* No connection is ever forgotten open (doq.go:230-236, 347-354, 487-490).
THEOREM NothingLeaks == Spec => []NoLeak
<1>1. Init => NoLeak
  BY DEF Init, NoLeak, Dead
<1>2. TypeOK /\ SingleFlight /\ NoLeak /\ [Next]_vars => NoLeak'
  BY NoLeakStep
<1>3. QED
  BY <1>1, <1>2, TypeCorrect, OneDial, PTL DEF Spec

-----------------------------------------------------------------------------
\* DialedUnshared is inductive relative to the types and SingleFlight.
LEMMA DialedUnsharedStep ==
  ASSUME TypeOK, SingleFlight, DialedUnshared, [Next]_vars
  PROVE  DialedUnshared'
<1> USE DoQAssumption DEF DoQAssumption
<1> USE DEF DialedUnshared, TypeOK, ConnTypes, CheckTypes, CallTypes
<1>0. ASSUME NEW q \in Queries, QueryStep(q)
      PROVE  \A k \in Calls : phase[k] = "connected" /\ res[k] # NoConn =>
               \A p \in Queries : query'[p].on # res[k] /\ query'[p].got # res[k]
  BY <1>0, QueryReaches
<1>1. ASSUME NEW q \in Queries, QuietStep(q)
      PROVE  DialedUnshared'
  <2>1. UNCHANGED <<conn, dialing, closing, live, phase, res>>
    BY <1>1, QuietQuery
  <2>2. \A c \in Conns : check'[c] # check[c] => query[q].on = c
    BY <1>1, QueryChecks
  <2>3. QueryStep(q)
    BY <1>1 DEF QuietStep, QueryStep, GetConn, Exchange
  <2>4. QED
    BY <1>0, <2>1, <2>2, <2>3
<1>2. ASSUME NEW q \in Queries, UnlinkingStep(q)
      PROVE  DialedUnshared'
  <2>1. QueryStep(q)
    BY <1>2 DEF UnlinkingStep, QueryStep, GetConn, Exchange
  <2>2. UNCHANGED <<check, phase, res>> /\ conn' \in {conn, NoConn}
    BY <1>2, UnlinkingQuery
  <2>3. QED
    BY <1>0, <2>1, <2>2
<1>9. ASSUME NEW q \in Queries, NEW k \in Calls, StartDial(q, k) PROVE DialedUnshared'
  <2>1. QueryStep(q)
    BY <1>9 DEF QueryStep, GetConn
  <2>2. /\ UNCHANGED <<check, res>> /\ conn' = NoConn
        /\ phase[k] = "idle" /\ phase' = [phase EXCEPT ![k] = "connecting"]
    BY <1>9 DEF StartDial, GoDial, wire
  <2>3. QED
    BY <1>0, <2>1, <2>2
<1>3. ASSUME NEW k \in Calls, NEW d \in Conns, ConnectOk(k, d) PROVE DialedUnshared'
  BY <1>3 DEF ConnectOk, Unreferenced, slot, wire
<1>4. ASSUME NEW k \in Calls,
             ConnectFail(k) \/ HoldFailure(k) \/ CloseDialed(k) \/ Install(k) \/ Publish(k)
      PROVE  DialedUnshared'
  <2>1. CASE ConnectFail(k)
    BY <2>1 DEF ConnectFail, slot, wire
  <2>2. CASE HoldFailure(k)
    BY <2>2 DEF HoldFailure, wire, Locked
  <2>3. CASE CloseDialed(k)
    BY <2>3 DEF CloseDialed, wire, Locked
  <2>4. CASE Install(k)
    BY <2>4 DEF Install, wire, Locked
  <2>5. CASE Publish(k)
    <3>1. \A p \in Queries : /\ query'[p].on = query[p].on
                             /\ query'[p].got \in {query[p].got, res[k]}
      <4>1. ASSUME NEW p \in Queries
            PROVE  LET r == [query[p] EXCEPT !.call = NoCall, !.got = res[k]]
                   IN  r.on = query[p].on /\ r.got = res[k]
        <5>1. query[p] \in Query
          BY DEF QueryTypes
        <5>2. QED
          BY <5>1 DEF Query
      <4>2. QED
        BY <2>5, <4>1 DEF Publish
    <3>2. /\ UNCHANGED <<conn, check>>
          /\ phase[k] = "unlocked" /\ phase' = [phase EXCEPT ![k] = "idle"]
          /\ res' = [res EXCEPT ![k] = NoConn]
      BY <2>5 DEF Publish, slot, wire
    <3>3. QED
      BY <3>1, <3>2
  <2>6. QED
    BY <1>4, <2>1, <2>2, <2>3, <2>4, <2>5
<1>5. ASSUME NEW d \in Conns, CheckStep(d) \/ Network(d) PROVE DialedUnshared'
  <2>1. CASE ProbeAnswered(d)
    BY <2>1, SeenType DEF ProbeAnswered, Goes, slot, calls
  <2>2. CASE ProbeOutvoted(d) \/ Condemn(d) \/ Unlink(d) \/ CloseCondemned(d)
    BY <2>2 DEF ProbeOutvoted, Condemn, Unlink, CloseCondemned, Goes, Unlinked, slot, calls
  <2>3. CASE FinishCheck(d)
    <3>1. \A p \in Queries : /\ query'[p].on \in {query[p].on, NoConn}
                             /\ query'[p].got = query[p].got
      <4>1. ASSUME NEW p \in Queries
            PROVE  LET r == [query[p] EXCEPT !.pc = "getConn", !.on = NoConn]
                   IN  r.on = NoConn /\ r.got = query[p].got
        <5>1. query[p] \in Query
          BY DEF QueryTypes
        <5>2. QED
          BY <5>1 DEF Query
      <4>2. QED
        BY <2>3, <4>1 DEF FinishCheck
    <3>2. UNCHANGED <<conn, phase, res>> /\ check' = [check EXCEPT ![d] = "none"]
      BY <2>3 DEF FinishCheck, Goes, slot, calls
    <3>3. QED
      BY <3>1, <3>2
  <2>4. CASE Network(d)
    BY <2>4 DEF Network, PathLost, PeerCloses, slot, calls
  <2>5. QED
    BY <1>5, <2>1, <2>2, <2>3, <2>4 DEF CheckStep
<1>6. CASE HoldExpires \/ CancelClose \/ CloseLocked
  BY <1>6 DEF HoldExpires, CancelClose, CloseLocked, calls, wire
<1>7. CASE UNCHANGED vars
  BY <1>7 DEF vars, slot, calls, wire
<1>8. QED
  BY StepCases, <1>1, <1>2, <1>9, <1>3, <1>4, <1>5, <1>6, <1>7

\* VerdictStands is inductive relative to the types and DialedUnshared.
LEMMA VerdictStandsStep ==
  ASSUME TypeOK, DialedUnshared, VerdictStands, [Next]_vars
  PROVE  VerdictStands'
<1> USE DoQAssumption DEF DoQAssumption
<1> USE DEF VerdictStands, Dead, TypeOK, ConnTypes, CheckTypes, CallTypes
<1>1. ASSUME NEW q \in Queries, QuietStep(q)
      PROVE  VerdictStands'
  <2>1. UNCHANGED <<conn, live>>
    BY <1>1, QuietQuery
  <2>2. /\ \A c \in Conns : check'[c] # check[c] => check'[c] = "probing"
        /\ \A c \in Conns : okDuring[c] /\ check[c] # "none" => okDuring'[c]
    BY <1>1, QueryChecks
  <2>3. QED
    BY <2>1, <2>2
<1>2. ASSUME NEW q \in Queries, UnlinkingStep(q) \/ \E k \in Calls : StartDial(q, k)
      PROVE  VerdictStands'
  <2>1. UNCHANGED <<live, check, okDuring>> /\ conn' \in {conn, NoConn}
    BY <1>2, UnlinkingQuery DEF StartDial, GoDial, wire
  <2>2. QED
    BY <2>1
<1>3. ASSUME NEW k \in Calls, NEW d \in Conns, ConnectOk(k, d) PROVE VerdictStands'
  BY <1>3 DEF ConnectOk, Unreferenced, slot, wire
<1>4. ASSUME NEW k \in Calls,
             ConnectFail(k) \/ HoldFailure(k) \/ CloseDialed(k) \/ Install(k) \/ Publish(k)
      PROVE  VerdictStands'
  <2>1. CASE ConnectFail(k) \/ HoldFailure(k) \/ Publish(k)
    BY <2>1 DEF ConnectFail, HoldFailure, Publish, slot, wire, Locked
  <2>2. CASE CloseDialed(k)
    BY <2>2 DEF CloseDialed, wire, Locked
  <2>3. CASE Install(k)
    \* No check runs on a connection nobody has used yet.
    <3>1. check[res[k]] = "none"
      BY <2>3 DEF Install, DialedUnshared, Locked
    <3>2. QED
      BY <2>3, <3>1 DEF Install, wire, Locked
  <2>4. QED
    BY <1>4, <2>1, <2>2, <2>3
<1>5. ASSUME NEW d \in Conns, CheckStep(d) PROVE VerdictStands'
  <2>1. CASE ProbeAnswered(d)
    BY <2>1 DEF ProbeAnswered, slot, Goes, Seen
  <2>2. CASE ProbeOutvoted(d) \/ Condemn(d) \/ Unlink(d) \/ CloseCondemned(d)
    BY <2>2 DEF ProbeOutvoted, Condemn, Unlink, CloseCondemned, slot, Goes, Unlinked
  <2>3. CASE FinishCheck(d)
    BY <2>3 DEF FinishCheck, slot, Goes
  <2>4. QED
    BY <1>5, <2>1, <2>2, <2>3 DEF CheckStep
<1>6. ASSUME NEW d \in Conns, Network(d) PROVE VerdictStands'
  BY <1>6 DEF Network, PathLost, PeerCloses, slot, wire
<1>7. CASE HoldExpires \/ CancelClose \/ CloseLocked
  BY <1>7 DEF HoldExpires, CancelClose, CloseLocked, wire
<1>8. CASE UNCHANGED vars
  BY <1>8 DEF vars, slot, wire
<1>9. QED
  BY StepCases, <1>1, <1>2, <1>3, <1>4, <1>5, <1>6, <1>7, <1>8

\* The inductive invariant of the whole module.
THEOREM Invariance == Spec => []IInv
<1>1. Init => DialedUnshared /\ VerdictStands
  BY DEF Init, DialedUnshared, VerdictStands
<1>2. TypeOK /\ SingleFlight /\ DialedUnshared /\ [Next]_vars => DialedUnshared'
  BY DialedUnsharedStep
<1>3. TypeOK /\ DialedUnshared /\ VerdictStands /\ [Next]_vars => VerdictStands'
  BY VerdictStandsStep
<1>4. QED
  BY <1>1, <1>2, <1>3, TypeCorrect, OneDial, NothingLeaks, PTL DEF Spec, IInv

\* No step of a query sends a waiter back to getConn.
LEMMA QueryWakesNobody ==
  ASSUME TypeOK, NEW p \in Queries, QueryStep(p), NEW q \in Queries, At(q, "waitCheck")
  PROVE  query'[q].pc # "getConn"
<1> USE DEF TypeOK, At
<1>1. CASE Answered(p)
  BY <1>1, SeenType DEF Answered, Idle
<1>2. CASE ~Answered(p) /\ p # q
  <2>1. \E r : Becomes(p, r)
    BY <1>2 DEF QueryStep, Ask, GetConn, ReuseConn, UseConn, AwaitVerdict, FailFast, JoinDial,
       StartDial, GoDial, TakeDialed, DialedFailed, GiveUp, Exchange, RetryOnDead, Retry,
       GiveUpOnDead, GiveUpOnReset, LeaveConn, SuspectConn, CtxEnds, Return
  <2>2. QED
    BY <1>2, <2>1, QuerySet
<1>3. CASE p = q
  <2>1. CASE GiveUp(p)
    BY <1>3, <2>1, QuerySet DEF GiveUp, Return, Idle
  <2>2. CASE CtxEnds(p)
    <3>1. [query[p] EXCEPT !.done = TRUE].pc = query[p].pc
      BY DEF QueryTypes, Query
    <3>2. QED
      BY <1>3, <2>2, <3>1, QuerySet DEF CtxEnds
  <2>3. ~Ask(p) /\ ~GetConn(p) /\ ~Exchange(p)
    BY <1>3 DEF Ask, GetConn, ReuseConn, UseConn, AwaitVerdict, FailFast, JoinDial, StartDial,
       TakeDialed, DialedFailed, Exchange, Answered, RetryOnDead, Retry, GiveUpOnDead,
       GiveUpOnReset, LeaveConn, SuspectConn, TimedOut
  <2>4. QED
    BY <2>1, <2>2, <2>3 DEF QueryStep
<1>4. QED
  BY <1>1, <1>2, <1>3

\* A query that waited for a verdict never picks up the connection just
\* condemned (doq.go:186-197, 371-391).
THEOREM VerdictFirst == Spec => WokenAfterVerdict
<1> DEFINE Woken == \A q \in Queries : At(q, "waitCheck") /\ query'[q].pc = "getConn" =>
                      LET c == query[q].on IN okDuring[c] \/ Dead(c) \/ conn # c
<1>1. ASSUME IInv, [Next]_vars PROVE Woken
  <2> SUFFICES ASSUME NEW q \in Queries, At(q, "waitCheck"), query'[q].pc = "getConn"
               PROVE  LET c == query[q].on IN okDuring[c] \/ Dead(c) \/ conn # c
    OBVIOUS
  <2> USE DEF IInv, TypeOK, QueryTypes, At
  <2>1. PICK c \in Conns : FinishCheck(c)
    <3>1. ASSUME NEW p \in Queries, QueryStep(p) PROVE FALSE
      BY <1>1, <3>1, QueryWakesNobody
    <3>2. ASSUME NEW k \in Calls, Connect(k) \/ DialEnds(k) PROVE FALSE
      <4>1. CASE Publish(k)
        <5>1. [query[q] EXCEPT !.call = NoCall, !.got = res[k]].pc = query[q].pc
          BY <1>1 DEF Query
        <5>2. QED
          BY <4>1, <5>1 DEF Publish
      <4>2. CASE ~Publish(k)
        BY <3>2, <4>2 DEF Connect, ConnectOk, ConnectFail, DialEnds, HoldFailure, CloseDialed,
                    Install, Locked
      <4>3. QED
        BY <4>1, <4>2
    <3>3. ASSUME NEW c \in Conns, CheckStep(c) \/ Network(c), ~FinishCheck(c) PROVE FALSE
      BY <1>1, <3>3, SeenType DEF CheckStep, ProbeAnswered, ProbeOutvoted, Condemn, Unlink,
           CloseCondemned, Network, PathLost, PeerCloses
    <3>4. ~(HoldExpires \/ CancelClose \/ CloseLocked \/ UNCHANGED vars)
      BY DEF HoldExpires, CancelClose, CloseLocked, vars
    <3>5. QED
      BY <1>1, <3>1, <3>2, <3>3, <3>4 DEF Next
  <2>2. check[c] = "finishing" /\ query[q].on = c
    BY <2>1 DEF FinishCheck, Goes
  <2>3. QED
    BY <1>1, <2>2 DEF VerdictStands
<1>2. QED
  BY <1>1, Invariance, PTL DEF Spec, WokenAfterVerdict

\* Once Close has returned, nothing is ever installed (doq.go:230-232).
THEOREM ClosedForGood == Spec => []ClosedStaysEmpty
<1>1. Init => ClosedStaysEmpty
  BY DEF Init, ClosedStaysEmpty
<1>2. ASSUME TypeOK, ClosedStaysEmpty, [Next]_vars PROVE ClosedStaysEmpty'
  <2> USE DEF ClosedStaysEmpty
  <2>1. ASSUME NEW q \in Queries, QuietStep(q)
        PROVE  ClosedStaysEmpty'
    BY <1>2, <2>1, QuietQuery
  <2>2. ASSUME NEW q \in Queries, UnlinkingStep(q)
        PROVE  ClosedStaysEmpty'
    BY <1>2, <2>2, UnlinkingQuery
  <2>3. ASSUME NEW q \in Queries, NEW k \in Calls, StartDial(q, k) PROVE ClosedStaysEmpty'
    BY <2>3 DEF StartDial, GoDial
  <2>4. ASSUME NEW k \in Calls, Connect(k) \/ DialEnds(k) PROVE ClosedStaysEmpty'
    BY <1>2, <2>4 DEF Connect, ConnectOk, ConnectFail, DialEnds, HoldFailure, CloseDialed,
                Install, Publish, slot, Locked
  <2>5. ASSUME NEW c \in Conns, CheckStep(c) \/ Network(c) PROVE ClosedStaysEmpty'
    BY <1>2, <2>5 DEF CheckStep, ProbeAnswered, ProbeOutvoted, Condemn, Unlink, CloseCondemned,
                FinishCheck, Network, PathLost, PeerCloses, slot, Goes, Seen, Unlinked
  <2>6. CASE HoldExpires \/ CancelClose \/ CloseLocked
    BY <1>2, <2>6 DEF HoldExpires, CancelClose, CloseLocked
  <2>7. CASE UNCHANGED vars
    BY <1>2, <2>7 DEF vars, slot
  <2>8. QED
    BY <1>2, StepCases, <2>1, <2>2, <2>3, <2>4, <2>5, <2>6, <2>7 DEF Connect, DialEnds
<1>3. QED
  BY <1>1, <1>2, TypeCorrect, PTL DEF Spec

\* A timeout or a reset stream of one query never closes or unlinks a live
\* connection under the others (doq.go:356-362, 475-478).
THEOREM NoCutByQuery == Spec => OneBadQueryKeepsConn
<1> DEFINE Keeps == \A q \in Queries : QueryStep(q) =>
                      \A c \in Conns : ~Dead(c) => live'[c] = live[c] /\ (conn = c => conn' = c)
<1>1. ASSUME TypeOK PROVE Keeps
  <2> SUFFICES ASSUME NEW q \in Queries, QueryStep(q), NEW c \in Conns, ~Dead(c)
               PROVE  live'[c] = live[c] /\ (conn = c => conn' = c)
    OBVIOUS
  <2>1. CASE QuietStep(q)
    BY <2>1, QuietQuery
  <2>2. CASE UnlinkingStep(q)
    BY <1>1, <2>2, UnlinkingQuery
  <2>3. CASE \E k \in Calls : StartDial(q, k)
    BY <2>3, DoQAssumption DEF StartDial, Unusable, DoQAssumption, GoDial, wire
  <2>4. QED
    BY <2>1, <2>2, <2>3 DEF QueryStep, GetConn, Exchange, QuietStep, UnlinkingStep
<1>2. QED
  BY <1>1, TypeCorrect, PTL DEF Spec, OneBadQueryKeepsConn
=============================================================================
