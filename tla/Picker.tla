------------------------------- MODULE Picker -------------------------------
(***************************************************************************)
(* The pool of upstreams (internal/upstream/picker.go): every query asks   *)
(* them in the order of their health and speed, hedges a slow one with the *)
(* next, keeps reserve (fallback) upstreams for the case that the primary  *)
(* ones refuse, and feeds what it learns back into the order.  A health    *)
(* check and the probes at start feed it too.                              *)
(*                                                                         *)
(* A timer that may fire is an action that may be taken.  Round trips are  *)
(* small integers and the averages are computed as in the code.            *)
(***************************************************************************)
EXTENDS Integers, FiniteSets

CONSTANTS
  Queries,     \* goroutines inside Picker.Exchange
  Primaries,   \* number of primary upstreams: the first of p.ups
  Fallbacks,   \* number of reserve upstreams: the others
  Rtts,        \* round trips an exchange may measure
  Elapsed,     \* what a loser may have waited when another one answers
  Probing      \* upstreams whose startup probe has not ended when queries begin

ASSUME PickerAssumption ==
  /\ Primaries \in Nat /\ Fallbacks \in Nat /\ Primaries + Fallbacks > 0
  /\ Rtts \subseteq Nat \ {0} /\ Elapsed \subseteq Nat \ {0}
  /\ Probing \subseteq 1..Primaries + Fallbacks

N == Primaries + Fallbacks
Ups == 1..N
Fallback(u) == u > Primaries

VARIABLES
  down,      \* downUntil is after now
  failed,    \* the last outcome was a failure
  rtt,       \* the moving average; 0: nothing measured
  query,     \* each query and the locals of Exchange and round
  checking,  \* upstreams the health check has still to probe
  boot,      \* the goroutine of each startup probe
  bootLeft,  \* startupProbe's pending
  bootSlow   \* how many of these goroutines have still to slow each upstream

states == <<down, failed, rtt>>
probes == <<checking, boot, bootLeft, bootSlow>>
vars   == <<states, query, probes>>

Query ==
  [pc : {"idle", "start", "loop", "settle", "done"},
   ctx : {"running", "done"},
   round : 0..2,
   order : [Ups -> Ups],             \* this round's snapshot
   next : 1..N + 1,
   running : SUBSET Ups,
   pending : 0..N,
   softs : SUBSET Ups,
   slow : SUBSET Ups,                \* losers still to be slowed
   timedOut : BOOLEAN,               \* and half an attemptTimeout is left
   winner : Ups \cup {0}]            \* whose useful answer it returns, or 0

TypeOK ==
  /\ down \in [Ups -> BOOLEAN] /\ failed \in [Ups -> BOOLEAN]
  /\ rtt \in [Ups -> Nat]
  /\ query \in [Queries -> Query]
  /\ checking \subseteq Ups
  /\ boot \in [Ups -> {"probing", "answered", "refused", "over"}]
  /\ bootLeft \subseteq Ups
  /\ bootSlow \in [Ups -> 0..N]

Idle ==
  [pc |-> "idle", ctx |-> "running", round |-> 0, order |-> [i \in Ups |-> i],
   next |-> 1, running |-> {}, pending |-> 0, softs |-> {}, slow |-> {},
   timedOut |-> FALSE, winner |-> 0]

\* NewPicker and StartHealthCheck; the probes of the others are over, whatever
\* they found, and those that answered are about to slow the ones that have not.
Init ==
  /\ failed \in [Ups -> BOOLEAN] /\ \A u \in Probing : ~failed[u]
  /\ rtt \in [Ups -> Rtts \cup {0}]
  /\ \A u \in Ups \ Probing : ~failed[u] => rtt[u] # 0
  /\ \A u \in Probing : rtt[u] = 0
  /\ (\A u \in Ups \ Probing : failed[u]) => \A u \in Ups : rtt[u] = 0
  /\ down = failed
  /\ boot = [u \in Ups |-> IF u \in Probing THEN "probing" ELSE "over"]
  /\ bootLeft = Probing
  /\ bootSlow = [u \in Ups |-> IF u \in Probing
                               THEN Cardinality({v \in Ups \ Probing : ~failed[v]}) ELSE 0]
  /\ query = [q \in Queries |-> Idle]
  /\ checking = {}

-----------------------------------------------------------------------------
(* What is known of an upstream. *)

Later(a, b) == IF a > b THEN a ELSE b

Average(old, new) == (old * 7 + new) \div 8

\* Mutant: the cooldown outlives the answer.
MarkSuccessStillDown(u, t) ==
  /\ failed' = [failed EXCEPT ![u] = FALSE]
  /\ rtt' = [rtt EXCEPT ![u] = IF @ = 0 THEN t ELSE Average(@, t)]
  /\ UNCHANGED down

MarkSuccess(u, t) ==
  /\ down' = [down EXCEPT ![u] = FALSE]
  /\ failed' = [failed EXCEPT ![u] = FALSE]
  /\ rtt' = [rtt EXCEPT ![u] = IF @ = 0 THEN t ELSE Average(@, t)]

\* Mutant: an upstream without a measurement is left without one.
MarkSlowMeasured(u, atLeast) ==
  /\ rtt' = [rtt EXCEPT ![u] = IF @ = 0 THEN 0 ELSE Later(@, Average(@, atLeast))]
  /\ UNCHANGED <<down, failed>>

\* Mutant: only the first loss counts.
MarkSlowOnce(u, atLeast) ==
  /\ rtt' = [rtt EXCEPT ![u] = IF @ = 0 THEN atLeast ELSE @]
  /\ UNCHANGED <<down, failed>>

MarkSlow(u, atLeast) ==
  /\ rtt' = [rtt EXCEPT ![u] = IF @ = 0 THEN atLeast ELSE Later(@, Average(@, atLeast))]
  /\ UNCHANGED <<down, failed>>

MarkDown(u) ==
  /\ down' = [down EXCEPT ![u] = TRUE]
  /\ failed' = [failed EXCEPT ![u] = TRUE]
  /\ UNCHANGED rtt

\* ordered's groups: healthy, failed but out of cooldown, in cooldown.
Group(u) == IF down[u] THEN 2 ELSE IF failed[u] THEN 1 ELSE 0

\* u stands before v: by group, the healthy by role and by speed, then as in
\* p.ups.
Ahead(u, v) ==
  \/ Group(u) < Group(v)
  \/ /\ Group(u) = Group(v)
     /\ \/ Group(u) > 0 /\ u < v
        \/ /\ Group(u) = 0
           /\ \/ ~Fallback(u) /\ Fallback(v)
              \/ /\ Fallback(u) <=> Fallback(v)
                 /\ rtt[u] < rtt[v] \/ (rtt[u] = rtt[v] /\ u < v)

Ordered == [i \in Ups |-> CHOOSE u \in Ups : Cardinality({v \in Ups : Ahead(v, u)}) = i - 1]

CooldownOver(u) ==
  /\ down[u]
  /\ down' = [down EXCEPT ![u] = FALSE]
  /\ UNCHANGED <<failed, rtt, query, probes>>

-----------------------------------------------------------------------------
(* Exchange and round. *)

At(q, p) == query[q].pc = p

Becomes(q, r) == query' = [query EXCEPT ![q] = r]

Ask(q) ==
  /\ query[q].pc \in {"idle", "done"}
  /\ Becomes(q, [Idle EXCEPT !.pc = "start", !.round = 1])
  /\ UNCHANGED <<states, probes>>

\* A round takes its snapshot and asks the first upstream.
StartRound(q) ==
  /\ At(q, "start")
  /\ Becomes(q, [query[q] EXCEPT !.pc = "loop", !.order = Ordered, !.next = 2,
                                 !.running = {Ordered[1]}, !.pending = 1, !.softs = {}])
  /\ UNCHANGED <<states, probes>>

\* Mutant: a reserve upstream is hedged like any other.
MayLaunchAny(r) == r.next <= N

\* There is a next upstream; a reserve waits until no primary is running.
MayLaunch(r) ==
  /\ r.next <= N
  /\ Fallback(r.order[r.next]) => \A u \in r.running : Fallback(u)

Launch(r) ==
  [r EXCEPT !.running = @ \cup {r.order[r.next]}, !.next = @ + 1, !.pending = @ + 1]

\* The round has no answer: another one, or what there is.  There is a useless
\* answer exactly when softs is not empty, for no second round follows it.
EndRound(r) ==
  IF r.timedOut /\ r.softs = {} /\ r.ctx = "running" /\ r.round < 2
  THEN [Idle EXCEPT !.pc = "start", !.round = r.round + 1]
  ELSE [Idle EXCEPT !.pc = "done"]

\* Mutant: while a reserve has to wait, the round ends.
ContinueImpatient(r) == IF MayLaunch(r) THEN Launch(r) ELSE EndRound(r)

\* Mutant: the round never notices that nobody is left.
ContinueForever(r) == IF MayLaunch(r) THEN Launch(r) ELSE r

\* After a useless result: the next upstream, or the end of the round.
Continue(r) ==
  IF MayLaunch(r) THEN Launch(r) ELSE IF r.pending = 0 THEN EndRound(r) ELSE r

\* The result of one attempt is taken from out.
Taken(q, u) == [query[q] EXCEPT !.running = @ \ {u}, !.pending = @ - 1]

\* The attempts that started before the one with u.
Earlier(r, u) ==
  {v \in r.running : \E i, j \in Ups : i < j /\ r.order[i] = v /\ r.order[j] = u}

\* A useful answer wins: what it says about the others is settled first.
Useful(q, u, t) ==
  /\ At(q, "loop") /\ u \in query[q].running
  /\ MarkSuccess(u, t)
  /\ Becomes(q, [Idle EXCEPT !.pc = "settle", !.winner = u, !.slow = Earlier(query[q], u),
                            !.order = query[q].order, !.running = query[q].running \ {u},
                            !.softs = query[q].softs])
  /\ UNCHANGED probes

\* SERVFAIL, REFUSED or a broken CNAME chain: kept in case nothing better comes.
Useless(q, u) ==
  LET r == Taken(q, u) IN
    /\ At(q, "loop") /\ u \in query[q].running
    /\ Becomes(q, Continue([r EXCEPT !.softs = @ \cup {u}]))
    /\ UNCHANGED <<states, probes>>

\* An error of the upstream: refused, reset, or attemptTimeout.  Whether there is
\* time for another round, after the first, is left open.
Fails(q, u, timeout) ==
  LET r == Taken(q, u) IN
    /\ At(q, "loop") /\ u \in query[q].running /\ query[q].ctx # "done"
    /\ MarkDown(u)
    /\ Becomes(q, Continue([r EXCEPT !.timedOut = @ \/ (timeout /\ r.round = 1)]))
    /\ UNCHANGED probes

\* The query's own context is over: an error of an attempt blames nobody, and
\* the round ends at once, as it does when the select sees parent.Done.
Abandon(q) ==
  /\ At(q, "loop") /\ query[q].ctx = "done"
  /\ Becomes(q, EndRound(query[q]))
  /\ UNCHANGED <<states, probes>>

\* The hedge timer.
Tick(q) ==
  /\ At(q, "loop") /\ MayLaunch(query[q])
  /\ Becomes(q, Launch(query[q]))
  /\ UNCHANGED <<states, probes>>

\* The winner's query slows the losers that started before it ...
SlowLoser(q, u, t) ==
  /\ At(q, "settle") /\ u \in query[q].slow
  /\ MarkSlow(u, t)
  /\ Becomes(q, [query[q] EXCEPT !.slow = @ \ {u}])
  /\ UNCHANGED probes

\* Mutant: every loser is set back.
BlameLoser(q, u) ==
  /\ At(q, "settle") /\ query[q].slow = {}
  /\ u \in query[q].softs \cup query[q].running
  /\ MarkDown(u)
  /\ Becomes(q, [query[q] EXCEPT !.softs = @ \ {u}, !.running = @ \ {u}])
  /\ UNCHANGED probes

\* ... then sets back those whose answers were useless ...
BlameSoft(q, u) ==
  /\ At(q, "settle") /\ query[q].slow = {} /\ u \in query[q].softs
  /\ MarkDown(u)
  /\ Becomes(q, [query[q] EXCEPT !.softs = @ \ {u}])
  /\ UNCHANGED probes

\* ... and returns; the running attempts are cancelled and not listened to.
Win(q) ==
  /\ At(q, "settle") /\ query[q].slow = {} /\ query[q].softs = {}
  /\ Becomes(q, [Idle EXCEPT !.pc = "done"])
  /\ UNCHANGED <<states, probes>>

TimePasses(q) ==
  /\ query[q].pc \in {"start", "loop"} /\ query[q].ctx # "done"
  /\ Becomes(q, [query[q] EXCEPT !.ctx = "done"])
  /\ UNCHANGED <<states, probes>>

-----------------------------------------------------------------------------
(* StartHealthCheck. *)

\* Mutant: only what is still in cooldown is probed.
HealthTickDown ==
  /\ checking = {}
  /\ checking' = {u \in Ups : down[u]}
  /\ UNCHANGED <<states, query, boot, bootLeft, bootSlow>>

\* The ticker: failedStates, taken once for the whole pass.
HealthTick ==
  /\ checking = {}
  /\ checking' = {u \in Ups : failed[u]}
  /\ UNCHANGED <<states, query, boot, bootLeft, bootSlow>>

\* The pass probes them one after the other, as they stand in p.ups.
PassProbes(u) ==
  /\ u \in checking /\ \A v \in checking : u <= v
  /\ checking' = checking \ {u}
  /\ UNCHANGED <<query, boot, bootLeft, bootSlow>>

ProbeRevives(u, t) == PassProbes(u) /\ MarkSuccess(u, t)

ProbeFails(u) == PassProbes(u) /\ UNCHANGED states

\* startupProbe: all at once, in the background.
BootAnswered(u, t) ==
  /\ boot[u] = "probing"
  /\ MarkSuccess(u, t)
  /\ boot' = [boot EXCEPT ![u] = "answered"]
  /\ UNCHANGED <<query, checking, bootLeft, bootSlow>>

BootRefused(u) ==
  /\ boot[u] = "probing"
  /\ MarkDown(u)
  /\ boot' = [boot EXCEPT ![u] = "refused"]
  /\ UNCHANGED <<query, checking, bootLeft, bootSlow>>

\* Under the local mutex: u is no longer pending; if it answered, the others are.
BootLeaves(u) ==
  /\ boot[u] \in {"answered", "refused"}
  /\ bootLeft' = bootLeft \ {u}
  /\ bootSlow' = [v \in Ups |-> IF boot[u] = "answered" /\ v \in bootLeft'
                                THEN bootSlow[v] + 1 ELSE bootSlow[v]]
  /\ boot' = [boot EXCEPT ![u] = "over"]
  /\ UNCHANGED <<states, query, checking>>

BootSlows(u, t) ==
  /\ bootSlow[u] > 0
  /\ MarkSlow(u, t)
  /\ bootSlow' = [bootSlow EXCEPT ![u] = @ - 1]
  /\ UNCHANGED <<query, checking, boot, bootLeft>>

-----------------------------------------------------------------------------
Result(q) ==
  \E u \in Ups :
    \/ \E t \in Rtts : Useful(q, u, t)
    \/ Useless(q, u)
    \/ \E timeout \in BOOLEAN : Fails(q, u, timeout)

Settle(q) ==
  \/ \E u \in Ups : BlameSoft(q, u) \/ \E t \in Elapsed : SlowLoser(q, u, t)
  \/ Win(q)

HealthCheck ==
  HealthTick \/ \E u \in Ups : ProbeFails(u) \/ \E t \in Rtts : ProbeRevives(u, t)

BootStep(u) ==
  \/ \E t \in Rtts : BootAnswered(u, t)
  \/ BootRefused(u) \/ BootLeaves(u)
  \/ \E t \in Elapsed : BootSlows(u, t)

Next ==
  \/ \E q \in Queries : Ask(q) \/ StartRound(q) \/ Result(q) \/ Tick(q)
                        \/ Abandon(q) \/ Settle(q) \/ TimePasses(q)
  \/ \E u \in Ups : CooldownOver(u) \/ BootStep(u)
  \/ HealthCheck

Spec == Init /\ [][Next]_vars

(* Every attempt and every probe has a limit; the goroutines run; the      *)
(* ticker of the health check ticks.                                       *)
Fairness ==
  /\ \A q \in Queries :
       WF_vars(StartRound(q)) /\ WF_vars(Result(q) \/ Abandon(q)) /\ WF_vars(Settle(q))
  /\ WF_vars(HealthCheck)
  /\ \A u \in Ups : WF_vars(BootStep(u))

FairSpec == Spec /\ Fairness
-----------------------------------------------------------------------------
(* Properties. *)

\* FallbackAfterPrimaries: a reserve upstream is asked only when every primary
\* before it in the query's order has been heard; so a reserve's answer never
\* overtakes that of a slow primary (picker.go:258-261, 308-318).
FallbackAfterPrimaries ==
  \A q \in Queries : At(q, "loop") =>
    LET r == query[q] IN
      \A i, j \in 1..r.next - 1 :
        i < j /\ Fallback(r.order[j]) /\ ~Fallback(r.order[i]) => r.order[i] \notin r.running

\* SomebodyIsAwaited: in its select a round always waits for somebody, and
\* pending is the number of those it waits for (picker.go:365-371).
SomebodyIsAwaited ==
  \A q \in Queries : At(q, "loop") =>
    query[q].pending = Cardinality(query[q].running) /\ query[q].pending > 0

\* CooldownIsFailure: what stands last because of its cooldown is also what the
\* health check looks for; nobody is set back out of its sight
\* (picker.go:112-144, 157-169).
CooldownIsFailure == \A u \in Ups : down[u] => failed[u]

\* Consistent: the types, and what the books of a round and of an upstream owe to
\* each other; together they are what the other properties rest on
\* (picker.go:42-50, 112-144, 297-377).
Consistent == TypeOK /\ SomebodyIsAwaited /\ CooldownIsFailure

\* GivesUpOnlyAfterAll: with time left, a query returns an error or a useless
\* answer only when every upstream was asked in its last round and was heard,
\* the last of them in this step (picker.go:263-286, 365-371).
GivesUpOnlyAfterAll ==
  [][\A q \in Queries :
       At(q, "loop") /\ query'[q].pc = "done" /\ query[q].ctx # "done" =>
         query[q].next = N + 1 /\ Cardinality(query[q].running) = 1]_vars

\* LosersNotBlamed: settling a query sets back none of the upstreams that were
\* still being waited for: they are slow at worst (picker.go:330-345).
LosersNotBlamed ==
  [][\A q \in Queries : At(q, "settle") /\ query'[q] # query[q] =>
       \A u \in query[q].running : failed'[u] = failed[u]]_vars

\* LosersMeasured: when a query returns an answer, every upstream asked before the
\* winner and still silent has a measurement: an unmeasured one would stand first
\* again and again, for everybody (picker.go:124-137).
LosersMeasured ==
  [][\A q \in Queries : At(q, "settle") /\ query'[q].pc = "done" =>
       \A u \in Earlier(query[q], query[q].winner) : rtt[u] # 0]_vars

\* QueryEnds: every query returns, though its context may never end
\* (picker.go:263-381).
QueryEnds == \A q \in Queries : At(q, "start") ~> At(q, "done")

\* Recovers: an upstream that answers usefully from some time on is counted
\* among the healthy for good, asked or not (picker.go:408-426).
Misbehaves(u) ==
  \/ ProbeFails(u) \/ BootRefused(u)
  \/ \E q \in Queries : \/ Useless(q, u)
                        \/ \E timeout \in BOOLEAN : Fails(q, u, timeout)

Recovers ==
  \A u \in Ups : <>[][~Misbehaves(u)]_vars => <>[]~failed[u]

\* HungLosesItsPlace: a primary that never answers again does not stay first
\* before one that always does, if queries keep being answered: each of them
\* waits for the hedge only until the hung one is known to be slow
\* (picker.go:124-137).
Silent(u) ==
  \A t \in Rtts : /\ \A q \in Queries : ~Useful(q, u, t)
                  /\ ~ProbeRevives(u, t) /\ ~BootAnswered(u, t)

HungLosesItsPlace ==
  \A u, w \in 1..Primaries :
    /\ u # w
    /\ <>[][Silent(u) /\ ~Misbehaves(w)]_vars
    /\ []<>(\E q \in Queries : At(q, "settle"))
    => <>[](Ordered[1] # u)
=============================================================================
