-------------------------------- MODULE DoQ --------------------------------
(***************************************************************************)
(* One DNS-over-QUIC upstream (internal/upstream/doq.go): the single       *)
(* connection all its queries share, the single dial that opens it, the    *)
(* liveness check that decides whether a connection on which a query timed *)
(* out is slow or dead, the one retry of a query, and Close.               *)
(*                                                                         *)
(* Times are abstracted to what the code compares: whether something       *)
(* passed on the connection since a query (or a check) started, and        *)
(* whether the fail-hold of the last dial has run out.  What connect does  *)
(* between its start and its result is in DialRace.                        *)
(***************************************************************************)
EXTENDS Naturals

CONSTANTS
  Queries,   \* goroutines inside ExchangeTimed
  Conns,     \* QUIC connections; a dead one nobody refers to is used again
  Calls,     \* dialCall objects; one that is over is used again
  NoConn,    \* the nil *liveConn
  NoCall,    \* the nil *dialCall
  Closable,  \* somebody calls Close: probe and test do, the daemon never does
  Pending    \* what a waiter knows of a dial before close(call.done)

ASSUME DoQAssumption ==
  /\ NoConn \notin Conns
  /\ NoCall \notin Calls
  /\ Closable \in BOOLEAN
  /\ Pending \notin Conns \cup {NoConn}

VARIABLES
  conn,      \* u.conn
  dialing,   \* u.dialing
  holding,   \* now is before u.dialErrUntil
  closing,   \* Close: not called, closeCtx cancelled, or returned
  live,      \* what each connection does: answers, is silent, is closed
  check,     \* the liveness check of each connection and its step
  okDuring,  \* lastOK >= start of the running check
  phase,     \* where the goroutine of each dialCall is
  res,       \* the connection each dialCall holds
  query      \* each query: its step and its locals

slot  == <<conn, dialing, holding, closing>>
wire  == <<live, check, okDuring>>
calls == <<phase, res>>
vars  == <<slot, wire, calls, query>>

\* conn.Context().Err() # nil.
Dead(c) == live[c] = "dead"

\* getConn finds no connection it may hand out.
Unusable == conn # NoConn => Dead(conn)

Query ==
  [pc : {"idle", "getConn", "loadCheck", "waitCheck", "waitDial", "exchange"},
   on : Conns \cup {NoConn},             \* the connection it holds
   call : Calls \cup {NoCall},           \* the dialCall it waits for
   got : Conns \cup {NoConn, Pending},   \* that call's published result
   attempt : 0..1,                       \* ExchangeTimed's counter
   fresh : BOOLEAN,                      \* getConn's second result
   done : BOOLEAN,                       \* its context is done
   ok : BOOLEAN]                         \* lastOK >= start of its exchange

ConnTypes ==
  /\ conn \in Conns \cup {NoConn}
  /\ dialing \in Calls \cup {NoCall}
  /\ holding \in BOOLEAN
  /\ closing \in {"no", "cancelled", "closed"}

CheckTypes ==
  /\ live \in [Conns -> {"answering", "silent", "dead"}]
  /\ check \in [Conns -> {"none", "probing", "dropping", "closing", "finishing"}]
  /\ okDuring \in [Conns -> BOOLEAN]

CallTypes ==
  /\ phase \in [Calls -> {"idle", "connecting", "connected", "unlocked"}]
  /\ res \in [Calls -> Conns \cup {NoConn}]

QueryTypes == query \in [Queries -> Query]

TypeOK == ConnTypes /\ CheckTypes /\ CallTypes /\ QueryTypes

\* A process that is not inside ExchangeTimed.
Idle == [pc |-> "idle", on |-> NoConn, call |-> NoCall, got |-> Pending,
         attempt |-> 0, fresh |-> FALSE, done |-> FALSE, ok |-> FALSE]

Init ==
  /\ conn = NoConn /\ dialing = NoCall /\ holding = FALSE /\ closing = "no"
  /\ live = [c \in Conns |-> "dead"]
  /\ check = [c \in Conns |-> "none"]
  /\ okDuring = [c \in Conns |-> FALSE]
  /\ phase = [k \in Calls |-> "idle"]
  /\ res = [k \in Calls |-> NoConn]
  /\ query = [q \in Queries |-> Idle]

At(q, p) == query[q].pc = p

\* One query moves on.
Becomes(q, r) == query' = [query EXCEPT ![q] = r]

\* It returns from ExchangeTimed; the process may ask again later.
Return(q) == Becomes(q, Idle)

\* u.conn = nil, if it is c.
Unlinked(c) == IF conn = c THEN NoConn ELSE conn

\* conn.markOK(): every exchange on c that started before now sees it.
Seen(c) ==
  [q \in Queries |-> [query[q] EXCEPT !.ok = @ \/ (At(q, "exchange") /\ query[q].on = c)]]

\* A dead connection no pointer leads to stands for a new one.
Unreferenced(c) ==
  /\ Dead(c) /\ conn # c /\ check[c] = "none"
  /\ \A q \in Queries : query[q].on # c /\ query[q].got # c
  /\ \A k \in Calls : res[k] # c

-----------------------------------------------------------------------------
(* getConn. *)

\* ExchangeTimed starts with a fresh context.
Ask(q) ==
  /\ At(q, "idle")
  /\ Becomes(q, [query[q] EXCEPT !.pc = "getConn"])
  /\ UNCHANGED <<slot, wire, calls>>

\* Under u.mu: there is a connection and it is not closed.
ReuseConn(q) ==
  /\ At(q, "getConn") /\ ~Unusable
  /\ Becomes(q, [query[q] EXCEPT !.pc = "loadCheck", !.on = conn])
  /\ UNCHANGED <<slot, wire, calls>>

\* After the unlock: c.check.Load() is nil, the exchange starts now.
UseConn(q) ==
  /\ At(q, "loadCheck") /\ check[query[q].on] = "none"
  /\ Becomes(q, [query[q] EXCEPT !.pc = "exchange", !.fresh = FALSE, !.ok = FALSE])
  /\ UNCHANGED <<slot, wire, calls>>

\* The connection is under suspicion: wait for the verdict.
AwaitVerdict(q) ==
  /\ At(q, "loadCheck") /\ check[query[q].on] # "none"
  /\ Becomes(q, [query[q] EXCEPT !.pc = "waitCheck"])
  /\ UNCHANGED <<slot, wire, calls>>

\* Under u.mu, no usable connection: within the hold of a failed dial the query
\* fails at once ...
FailFast(q) ==
  /\ At(q, "getConn") /\ Unusable
  /\ dialing = NoCall /\ holding
  /\ conn' = NoConn
  /\ Return(q)
  /\ UNCHANGED <<dialing, holding, closing, wire, calls>>

\* ... it joins the dial under way ...
JoinDial(q) ==
  /\ At(q, "getConn") /\ Unusable
  /\ dialing # NoCall
  /\ conn' = NoConn
  /\ Becomes(q, [query[q] EXCEPT !.pc = "waitDial", !.call = dialing])
  /\ UNCHANGED <<dialing, holding, closing, wire, calls>>

\* ... or it starts a dial, in a goroutine of its own.
GoDial(q, k) ==
  /\ phase[k] = "idle"
  /\ conn' = NoConn
  /\ dialing' = k
  /\ phase' = [phase EXCEPT ![k] = "connecting"]
  /\ Becomes(q, [query[q] EXCEPT !.pc = "waitDial", !.call = k])
  /\ UNCHANGED <<holding, closing, wire, res>>

\* Mutant: the dial under way is not looked at.
StartSecondDial(q, k) == At(q, "getConn") /\ Unusable /\ ~holding /\ GoDial(q, k)

StartDial(q, k) ==
  /\ At(q, "getConn") /\ Unusable
  /\ dialing = NoCall /\ ~holding
  /\ GoDial(q, k)

\* select: call.done is closed.  The new connection is fresh, and its check is
\* not looked at.
TakeDialed(q) ==
  /\ At(q, "waitDial") /\ query[q].got \in Conns
  /\ Becomes(q, [query[q] EXCEPT !.pc = "exchange", !.on = query[q].got, !.got = Pending,
                                 !.fresh = TRUE, !.ok = FALSE])
  /\ UNCHANGED <<slot, wire, calls>>

\* select: call.done is closed and the dial failed; nothing to retry.
DialedFailed(q) ==
  /\ At(q, "waitDial") /\ query[q].got = NoConn
  /\ Return(q)
  /\ UNCHANGED <<slot, wire, calls>>

\* select: ctx.Done in either wait.  A select with both channels ready takes
\* either, so a published result does not disable this.
GiveUp(q) ==
  /\ query[q].pc \in {"waitCheck", "waitDial"} /\ query[q].done
  /\ Return(q)
  /\ UNCHANGED <<slot, wire, calls>>

-----------------------------------------------------------------------------
(* dial. *)

\* connect succeeds ...
ConnectOk(k, c) ==
  /\ phase[k] = "connecting" /\ Unreferenced(c)
  /\ live' = [live EXCEPT ![c] = "answering"]
  /\ phase' = [phase EXCEPT ![k] = "connected"]
  /\ res' = [res EXCEPT ![k] = c]
  /\ UNCHANGED <<slot, check, okDuring, query>>

\* ... or fails: no address, every address failed, or dialTimeout.
ConnectFail(k) ==
  /\ phase[k] = "connecting"
  /\ phase' = [phase EXCEPT ![k] = "connected"]
  /\ UNCHANGED <<slot, wire, res, query>>

\* The locked part of dial: u.dialing = nil and one of three cases.
Locked(k) ==
  /\ phase[k] = "connected"
  /\ dialing' = NoCall
  /\ phase' = [phase EXCEPT ![k] = "unlocked"]
  /\ UNCHANGED <<closing, check, okDuring, query>>

HoldFailure(k) ==
  /\ res[k] = NoConn
  /\ Locked(k)
  /\ holding' = TRUE
  /\ UNCHANGED <<conn, live, res>>

\* Mutant: a dial overtaken by Close only forgets its connection.
ForgetDialed(k) ==
  /\ res[k] # NoConn /\ closing # "no"
  /\ Locked(k)
  /\ res' = [res EXCEPT ![k] = NoConn]
  /\ UNCHANGED <<conn, holding, live>>

CloseDialed(k) ==
  /\ res[k] # NoConn /\ closing # "no"
  /\ Locked(k)
  /\ live' = [live EXCEPT ![res[k]] = "dead"]
  /\ res' = [res EXCEPT ![k] = NoConn]
  /\ UNCHANGED <<conn, holding>>

\* Mutant: closeCtx is not looked at under the lock.
InstallAnyway(k) ==
  /\ res[k] # NoConn
  /\ Locked(k)
  /\ conn' = res[k] /\ holding' = FALSE
  /\ UNCHANGED <<live, res>>

Install(k) ==
  /\ res[k] # NoConn /\ closing = "no"
  /\ Locked(k)
  /\ conn' = res[k] /\ holding' = FALSE
  /\ UNCHANGED <<live, res>>

\* After the unlock: close(call.done) hands the result to every waiter.
Publish(k) ==
  /\ phase[k] = "unlocked"
  /\ query' = [q \in Queries |->
                 IF query[q].call = k
                 THEN [query[q] EXCEPT !.call = NoCall, !.got = res[k]]
                 ELSE query[q]]
  /\ phase' = [phase EXCEPT ![k] = "idle"]
  /\ res' = [res EXCEPT ![k] = NoConn]
  /\ UNCHANGED <<slot, wire>>

HoldExpires ==
  /\ holding
  /\ holding' = FALSE
  /\ UNCHANGED <<conn, dialing, closing, wire, calls, query>>

-----------------------------------------------------------------------------
(* The exchange and what ExchangeTimed makes of its error.  What failed an    *)
(* exchange is only read afterwards (conn.Context().Err(), ctx.Err()), so the *)
(* failure and its classification are one step.                               *)

Answered(q) ==
  LET c == query[q].on IN
    /\ At(q, "exchange") /\ live[c] = "answering"
    /\ query' = [Seen(c) EXCEPT ![q] = Idle]
    /\ okDuring' = [okDuring EXCEPT ![c] = (check[c] # "none")]
    /\ UNCHANGED <<slot, live, check, calls>>

\* The connection is closed: dropConn unlinks it; one retry, and only of an
\* exchange on a reused connection.
Retry(q) ==   \* on its own, a mutant: every attempt may be followed by another
  /\ At(q, "exchange") /\ Dead(query[q].on)
  /\ ~query[q].fresh /\ ~query[q].done
  /\ conn' = Unlinked(query[q].on)
  /\ Becomes(q, [Idle EXCEPT !.pc = "getConn", !.attempt = query[q].attempt + 1])
  /\ UNCHANGED <<dialing, holding, closing, wire, calls>>

RetryOnDead(q) == query[q].attempt = 0 /\ Retry(q)

GiveUpOnDead(q) ==
  /\ At(q, "exchange") /\ Dead(query[q].on)
  /\ query[q].fresh \/ query[q].attempt # 0 \/ query[q].done
  /\ conn' = Unlinked(query[q].on)
  /\ Return(q)
  /\ UNCHANGED <<dialing, holding, closing, wire, calls>>

\* The server reset this one stream or answered garbage: the connection stays.
GiveUpOnReset(q) ==
  /\ At(q, "exchange") /\ live[query[q].on] = "answering" /\ ~query[q].done
  /\ Return(q)
  /\ UNCHANGED <<slot, wire, calls>>

\* Mutant: the context is only looked at when something arrives.
TimedOutReading(q) ==
  At(q, "exchange") /\ live[query[q].on] = "answering" /\ query[q].done

\* The context is done and the connection is not dead: suspect.  Its load of
\* lastOK and its swap of conn.check are one step; what passes on the connection
\* between them would only make the check superfluous.
TimedOut(q) == At(q, "exchange") /\ ~Dead(query[q].on) /\ query[q].done

\* Something passed since the query started, or a check is running already.
LeaveConn(q) ==
  /\ TimedOut(q)
  /\ query[q].ok \/ check[query[q].on] # "none"
  /\ Return(q)
  /\ UNCHANGED <<slot, wire, calls>>

\* Mutant: a timed out query drops the connection at once.
DropSuspected(q) ==
  /\ TimedOut(q) /\ ~query[q].ok /\ check[query[q].on] = "none"
  /\ conn' = Unlinked(query[q].on)
  /\ live' = [live EXCEPT ![query[q].on] = "dead"]
  /\ Return(q)
  /\ UNCHANGED <<dialing, holding, closing, check, okDuring, calls>>

SuspectConn(q) ==
  LET c == query[q].on IN
    /\ TimedOut(q) /\ ~query[q].ok /\ check[c] = "none"
    /\ check' = [check EXCEPT ![c] = "probing"]
    /\ okDuring' = [okDuring EXCEPT ![c] = FALSE]
    /\ Return(q)
    /\ UNCHANGED <<slot, live, calls>>

-----------------------------------------------------------------------------
(* The goroutine of a liveness check. *)

\* The check moves from one of its steps to another.
Goes(c, from, to) ==
  /\ check[c] = from
  /\ check' = [check EXCEPT ![c] = to]

ProbeAnswered(c) ==
  /\ live[c] = "answering"
  /\ Goes(c, "probing", "finishing")
  /\ okDuring' = [okDuring EXCEPT ![c] = TRUE]
  /\ query' = Seen(c)
  /\ UNCHANGED <<slot, live, calls>>

\* Mutant: a failed probe never condemns, whatever lastOK says.
ProbeIgnored(c) ==
  Goes(c, "probing", "finishing") /\ UNCHANGED <<slot, live, okDuring, calls, query>>

\* The probe failed or ran out of time: something passed meanwhile ...
ProbeOutvoted(c) ==
  /\ okDuring[c]
  /\ Goes(c, "probing", "finishing")
  /\ UNCHANGED <<slot, live, okDuring, calls, query>>

\* ... or nothing did when lastOK was loaded, and the connection is condemned.
Condemn(c) ==
  /\ ~okDuring[c]
  /\ Goes(c, "probing", "dropping")
  /\ UNCHANGED <<slot, live, okDuring, calls, query>>

\* Mutant: the check ends without dropping the connection it condemned.
KeepLinked(c) ==
  Goes(c, "dropping", "finishing") /\ UNCHANGED <<slot, live, okDuring, calls, query>>

\* Mutant: the connection is unlinked and never closed.
UnlinkOnly(c) ==
  /\ Goes(c, "dropping", "finishing")
  /\ conn' = Unlinked(c)
  /\ UNCHANGED <<dialing, holding, closing, live, okDuring, calls, query>>

\* dropConn, under u.mu ...
Unlink(c) ==
  /\ Goes(c, "dropping", "closing")
  /\ conn' = Unlinked(c)
  /\ UNCHANGED <<dialing, holding, closing, live, okDuring, calls, query>>

\* ... and after the unlock.
CloseCondemned(c) ==
  /\ Goes(c, "closing", "finishing")
  /\ live' = [live EXCEPT ![c] = "dead"]
  /\ UNCHANGED <<slot, okDuring, calls, query>>

\* The deferred check.Store(nil) and close(done); every waiter goes back to
\* getConn.  A check started between the two does not see these waiters.
FinishCheck(c) ==
  /\ Goes(c, "finishing", "none")
  /\ okDuring' = [okDuring EXCEPT ![c] = FALSE]
  /\ query' = [q \in Queries |->
                 IF At(q, "waitCheck") /\ query[q].on = c
                 THEN [query[q] EXCEPT !.pc = "getConn", !.on = NoConn]
                 ELSE query[q]]
  /\ UNCHANGED <<slot, live, calls>>

-----------------------------------------------------------------------------
(* Close. *)

CancelClose ==
  /\ Closable /\ closing = "no"
  /\ closing' = "cancelled"
  /\ UNCHANGED <<conn, dialing, holding, wire, calls, query>>

CloseLocked ==
  /\ closing = "cancelled"
  /\ closing' = "closed"
  /\ live' = [c \in Conns |-> IF c = conn THEN "dead" ELSE live[c]]
  /\ conn' = NoConn
  /\ UNCHANGED <<dialing, holding, check, okDuring, calls, query>>

-----------------------------------------------------------------------------
(* The environment: deadlines, and what happens to a connection. *)

\* A context that ends anywhere else is noticed at the next of these.
CtxEnds(q) ==
  /\ query[q].pc \in {"waitCheck", "waitDial", "exchange"} /\ ~query[q].done
  /\ Becomes(q, [query[q] EXCEPT !.done = TRUE])
  /\ UNCHANGED <<slot, wire, calls>>

\* The WAN address changes: nothing comes back any more.
PathLost(c) ==
  /\ live[c] = "answering"
  /\ live' = [live EXCEPT ![c] = "silent"]
  /\ UNCHANGED <<slot, check, okDuring, calls, query>>

\* The server closes the connection, or QUIC buries it by idle timeout.
PeerCloses(c) ==
  /\ ~Dead(c)
  /\ live' = [live EXCEPT ![c] = "dead"]
  /\ UNCHANGED <<slot, check, okDuring, calls, query>>

-----------------------------------------------------------------------------
GetConn(q) ==
  \/ ReuseConn(q) \/ UseConn(q) \/ AwaitVerdict(q)
  \/ FailFast(q) \/ JoinDial(q) \/ \E k \in Calls : StartDial(q, k)
  \/ TakeDialed(q) \/ DialedFailed(q)

Exchange(q) ==
  \/ Answered(q) \/ RetryOnDead(q) \/ GiveUpOnDead(q) \/ GiveUpOnReset(q)
  \/ LeaveConn(q) \/ SuspectConn(q)

Connect(k) == ConnectFail(k) \/ \E c \in Conns : ConnectOk(k, c)

DialEnds(k) == HoldFailure(k) \/ CloseDialed(k) \/ Install(k) \/ Publish(k)

CheckStep(c) ==
  \/ ProbeAnswered(c) \/ ProbeOutvoted(c) \/ Condemn(c)
  \/ Unlink(c) \/ CloseCondemned(c) \/ FinishCheck(c)

Network(c) == PathLost(c) \/ PeerCloses(c)

QueryStep(q) ==
  Ask(q) \/ GetConn(q) \/ GiveUp(q) \/ Exchange(q) \/ CtxEnds(q)

Next ==
  \/ \E q \in Queries : QueryStep(q)
  \/ \E k \in Calls : Connect(k) \/ DialEnds(k)
  \/ \E c \in Conns : CheckStep(c) \/ Network(c)
  \/ HoldExpires \/ CancelClose \/ CloseLocked

Spec == Init /\ [][Next]_vars

(* Goroutines are scheduled; a query's context has a deadline; a dial and a *)
(* probe have timeouts; a select does not neglect a ready channel for ever, *)
(* nor the mutex a waiter.                                                  *)
Fairness ==
  /\ \A q \in Queries :
       /\ SF_vars(GetConn(q)) /\ WF_vars(Exchange(q))
       /\ SF_vars(CtxEnds(q)) /\ SF_vars(GiveUp(q))
  /\ \A k \in Calls : WF_vars(Connect(k)) /\ WF_vars(DialEnds(k))
  /\ \A c \in Conns : WF_vars(CheckStep(c))
  /\ WF_vars(CloseLocked)

FairSpec == Spec /\ Fairness
-----------------------------------------------------------------------------
(* Properties. *)

\* SingleFlight: while a dial is under way there is no installed connection,
\* and u.dialing names the only goroutine that has still to take the lock: the
\* dial that ends never replaces a connection somebody uses (doq.go:200-211,
\* 233-236).
SingleFlight ==
  /\ dialing # NoCall => conn = NoConn
  /\ \A k \in Calls : phase[k] \in {"connecting", "connected"} <=> dialing = k

\* NoLeak: every open connection is the installed one, or in the hands of a dial
\* that will install or close it, or in the hands of a check that is closing it:
\* none is forgotten open (doq.go:230-236, 347-354, 487-490).
NoLeak ==
  \A c \in Conns : ~Dead(c) =>
    \/ conn = c
    \/ \E k \in Calls : phase[k] = "connected" /\ res[k] = c
    \/ check[c] = "closing"

\* ClosedStaysEmpty: once Close has returned no connection is ever installed,
\* though dials started before or after it may still succeed (doq.go:230-232).
ClosedStaysEmpty == closing = "closed" => conn = NoConn

\* WokenAfterVerdict: a query that waited for a liveness check is sent back to
\* getConn only when the connection has shown itself alive during the check or
\* is out of the way: it never picks up the connection just condemned
\* (doq.go:186-197, 371-391).
WokenAfterVerdict ==
  [][\A q \in Queries : At(q, "waitCheck") /\ query'[q].pc = "getConn" =>
       LET c == query[q].on IN okDuring[c] \/ Dead(c) \/ conn # c]_vars

\* OneBadQueryKeepsConn: one step of a query never closes or unlinks a connection
\* that is not already dead: neither a timeout nor a reset stream cuts the
\* others off (doq.go:356-362, 475-478).
OneBadQueryKeepsConn ==
  [][\A q \in Queries : QueryStep(q) =>
       \A c \in Conns : ~Dead(c) => live'[c] = live[c] /\ (conn = c => conn' = c)]_vars

\* DialedUnshared: a dial holds no connection before its handshake, and the one
\* it then holds is known to it alone until the locked part (doq.go:224-237).
DialedUnshared ==
  \A k \in Calls :
    /\ phase[k] \in {"idle", "connecting"} => res[k] = NoConn
    /\ phase[k] = "connected" /\ res[k] # NoConn =>
         /\ check[res[k]] = "none" /\ conn # res[k]
         /\ \A q \in Queries : query[q].on # res[k] /\ query[q].got # res[k]
         /\ \A j \in Calls \ {k} : res[j] # res[k]

\* VerdictStands: a check that is about to end has seen the connection alive, or
\* has closed or unlinked it (doq.go:371-391).
VerdictStands ==
  \A c \in Conns : check[c] = "finishing" => okDuring[c] \/ Dead(c) \/ conn # c

\* The inductive invariant of DoQ_proof.
IInv == TypeOK /\ SingleFlight /\ NoLeak /\ DialedUnshared /\ VerdictStands

\* QueryEnds: every query returns, whatever dials and checks it waits for
\* (doq.go:190-197, 213-218, 446-481).
QueryEnds == \A q \in Queries : ~At(q, "idle") ~> At(q, "idle")

\* SilentIsReplaced: a connection on which nothing comes back does not stay
\* installed if queries keep timing out on it (doq.go:356-392).
SilentIsReplaced ==
  \A c \in Conns :
    ([]<>(\E q \in Queries : TimedOut(q) /\ query[q].on = c)) => []<>~(conn = c /\ live[c] = "silent")

\* CloseReleases: after Close, a moment comes when every connection is closed,
\* those of dials and checks still running included (doq.go:230-232, 483-492).
CloseReleases == closing = "closed" ~> \A c \in Conns : Dead(c)
=============================================================================
