------------------------------ MODULE Resolver ------------------------------
(***************************************************************************)
(* internal/resolver/resolver.go: clients answered from the cache, from    *)
(* one shared upstream request per key, or with an outdated answer when    *)
(* the upstreams fail or are slow.  The upstreams are the rest of the      *)
(* program (Picker); here they are a zone whose data change and an         *)
(* Exchange that may bring anything.                                       *)
(***************************************************************************)
EXTENDS Cache

CONSTANTS
  Clients,
  Calls,        \* call objects; one that is over is used again
  NoCall,
  NoMsg         \* the nil *dns.Msg

ASSUME ResolverAssumption ==
  /\ NoCall \notin Calls /\ NoMsg \notin Message
  /\ Keys # {} /\ 0 \in Versions

VARIABLES
  inflight,     \* r.inflight
  call,         \* each call and its goroutine
  client,       \* each client inside Resolve
  recent,       \* lastFailure is less than failureRecheck ago
  zone          \* the version of a key's data the upstreams give now

vars == <<store, inflight, call, client, recent, zone>>

\* A response: NOERROR or NXDOMAIN, another rcode, or an error instead of one.
Rcodes == {"good", "servfail", "other"}
Reply == [rcode : Rcodes \cup {"error"}, msg : Message]

\* What a client has in the end: data, another rcode, SERVFAIL or an error (out of
\* which the server makes SERVFAIL).
None == -1
Data(msg) == [kind |-> "data", ver |-> msg.ver]
NoData(kind) == [kind |-> kind, ver |-> None]
Answers == [kind : {"none", "data", "other", "failed"}, ver : Versions \cup {None}]

Call ==
  [pc : {"idle", "exchange", "store", "remove", "close"},
   key : Keys,
   reply : Reply]

Client ==
  [pc : {"idle", "get", "stale", "shared", "check", "wait", "done"},
   key : Keys,
   stale : Message \cup {NoMsg},
   call : Calls \cup {NoCall},
   got : Answers,         \* what c brought, once c.done is closed
   answer : Answers]

TypeOK ==
  /\ CacheTypeOK
  /\ inflight \in [Keys -> Calls \cup {NoCall}]
  /\ call \in [Calls -> Call]
  /\ client \in [Clients -> Client]
  /\ recent \in BOOLEAN
  /\ zone \in [Keys -> Versions]

AnyKey == CHOOSE k \in Keys : TRUE
NoReply == [rcode |-> "error", msg |-> [ver |-> 0, ttls |-> {}]]
NoWork == [pc |-> "idle", key |-> AnyKey, reply |-> NoReply]
Served(reply) ==
  CASE reply.rcode = "good" -> Data(reply.msg)
    [] reply.rcode = "other" -> NoData("other")
    [] OTHER -> NoData("failed")

Gone(answer) ==
  [pc |-> "done", key |-> AnyKey, stale |-> NoMsg, call |-> NoCall,
   got |-> NoData("none"), answer |-> answer]
Idle == [Gone(NoData("none")) EXCEPT !.pc = "idle"]

Init ==
  /\ CacheInit
  /\ inflight = [k \in Keys |-> NoCall]
  /\ call = [c \in Calls |-> NoWork]
  /\ client = [p \in Clients |-> Idle]
  /\ recent = FALSE
  /\ zone = [k \in Keys |-> 0]

At(p, step) == client[p].pc = step
Becomes(p, r) == client' = [client EXCEPT ![p] = r]

\* Resolve returns.
Return(p, answer) == Becomes(p, Gone(answer))

-----------------------------------------------------------------------------
(* Resolve. *)

\* A request without exactly one question is not cached: whatever comes.
PassThrough(p, kind) ==
  /\ client[p].pc \in {"idle", "done"}
  /\ Becomes(p, Gone(NoData(kind)))
  /\ UNCHANGED <<store, inflight, call, recent, zone>>

Ask(p, k) ==
  /\ client[p].pc \in {"idle", "done"}
  /\ Becomes(p, [Idle EXCEPT !.pc = "get", !.key = k])
  /\ UNCHANGED <<store, inflight, call, recent, zone>>

\* cache.Get.
Get(p) ==
  LET k == client[p].key IN
    /\ At(p, "get")
    /\ Lookup(k)
    /\ IF FreshHit(k) THEN Return(p, Data(Found(k).msg))
                      ELSE Becomes(p, [client[p] EXCEPT !.pc = "stale"])
    /\ UNCHANGED <<inflight, call, recent, zone>>

\* cache.GetStale, later.
GetStale(p) ==
  LET k == client[p].key IN
    /\ At(p, "stale")
    /\ Lookup(k)
    /\ Becomes(p, [client[p] EXCEPT !.pc = "shared",
                     !.stale = IF Hit(k) THEN Found(k).msg ELSE NoMsg])
    /\ UNCHANGED <<inflight, call, recent, zone>>

\* shared, under r.mu: join the request under way ...
Join(p) ==
  LET k == client[p].key IN
    /\ At(p, "shared") /\ inflight[k] # NoCall
    /\ Becomes(p, [client[p] EXCEPT !.pc = "check", !.call = inflight[k]])
    /\ UNCHANGED <<store, inflight, call, recent, zone>>

\* Mutant: the request under way is not looked for.
StartAnother(p, c) ==
  LET k == client[p].key IN
    /\ At(p, "shared") /\ call[c].pc = "idle"
    /\ inflight' = [inflight EXCEPT ![k] = c]
    /\ call' = [call EXCEPT ![c] = [NoWork EXCEPT !.pc = "exchange", !.key = k]]
    /\ Becomes(p, [client[p] EXCEPT !.pc = "check", !.call = c])
    /\ UNCHANGED <<store, recent, zone>>

\* ... or start one.
StartCall(p, c) ==
  LET k == client[p].key IN
    /\ At(p, "shared") /\ inflight[k] = NoCall
    /\ call[c].pc = "idle"
    /\ inflight' = [inflight EXCEPT ![k] = c]
    /\ call' = [call EXCEPT ![c] = [NoWork EXCEPT !.pc = "exchange", !.key = k]]
    /\ Becomes(p, [client[p] EXCEPT !.pc = "check", !.call = c])
    /\ UNCHANGED <<store, recent, zone>>

\* The upstreams failed a moment ago: an outdated answer is given at once.
FailedRecently(p) ==
  /\ At(p, "check") /\ client[p].stale # NoMsg /\ recent
  /\ Return(p, Data(client[p].stale))
  /\ UNCHANGED <<store, inflight, call, recent, zone>>

Wait(p) ==
  /\ At(p, "check") /\ (client[p].stale = NoMsg \/ ~recent)
  /\ Becomes(p, [client[p] EXCEPT !.pc = "wait"])
  /\ UNCHANGED <<store, inflight, call, recent, zone>>

\* Mutant: an outdated answer does not stand in for a failure.
AnsweredOnError(p) ==
  /\ At(p, "wait") /\ client[p].got.kind # "none"
  /\ Return(p, client[p].got)
  /\ UNCHANGED <<store, inflight, call, recent, zone>>

\* select: c.done is closed.
Answered(p) ==
  /\ At(p, "wait") /\ client[p].got.kind # "none"
  /\ Return(p, IF client[p].stale # NoMsg /\ client[p].got.kind = "failed"
               THEN Data(client[p].stale) ELSE client[p].got)
  /\ UNCHANGED <<store, inflight, call, recent, zone>>

\* select: staleAnswerDelay has passed.
Slow(p) ==
  /\ At(p, "wait") /\ client[p].stale # NoMsg
  /\ Return(p, Data(client[p].stale))
  /\ UNCHANGED <<store, inflight, call, recent, zone>>

\* select: the client's context is over.
CtxDone(p) ==
  /\ At(p, "wait")
  /\ Return(p, IF client[p].stale # NoMsg THEN Data(client[p].stale) ELSE NoData("failed"))
  /\ UNCHANGED <<store, inflight, call, recent, zone>>

-----------------------------------------------------------------------------
(* The goroutine of a call. *)

\* The call moves from one of its steps to another.
Goes(c, from, to) == call[c].pc = from /\ call' = [call EXCEPT ![c].pc = to]

\* Mutant: the call leaves inflight when the answer is there, not when it is kept.
ExchangedAndRemoved(c, rcode, ttls) ==
  /\ call[c].pc = "exchange"
  /\ call' = [call EXCEPT ![c].pc = "store",
                ![c].reply = [rcode |-> rcode,
                              msg |-> [ver |-> IF rcode = "good" THEN zone[call[c].key] ELSE 0,
                                       ttls |-> IF rcode = "good" THEN ttls ELSE {}]]]
  /\ inflight' = [inflight EXCEPT ![call[c].key] = NoCall]
  /\ UNCHANGED <<store, client, recent, zone>>

\* up.Exchange returns, at the latest after sharedTimeout.  A good answer is what
\* the zone holds now.
Exchanged(c, rcode, ttls) ==
  /\ call[c].pc = "exchange"
  /\ call' = [call EXCEPT ![c].pc = "store",
                ![c].reply = [rcode |-> rcode,
                              msg |-> [ver |-> IF rcode = "good" THEN zone[call[c].key] ELSE 0,
                                       ttls |-> IF rcode = "good" THEN ttls ELSE {}]]]
  /\ UNCHANGED <<store, inflight, client, recent, zone>>

\* Put, which keeps NOERROR and NXDOMAIN only ...
Put(c) ==
  /\ Goes(c, "store", "remove")
  /\ call[c].reply.rcode # "error"
  /\ IF call[c].reply.rcode = "good" THEN Store(call[c].key, call[c].reply.msg)
                                     ELSE UNCHANGED store
  /\ UNCHANGED <<inflight, client, recent, zone>>

\* ... or lastFailure.Store.
NoteFailure(c) ==
  /\ Goes(c, "store", "remove")
  /\ call[c].reply.rcode = "error"
  /\ recent' = TRUE
  /\ UNCHANGED <<store, inflight, client, zone>>

\* Mutant: a failed call stays in inflight.
RemoveGood(c) ==
  /\ Goes(c, "remove", "close")
  /\ inflight' = IF call[c].reply.rcode = "error" THEN inflight
                 ELSE [inflight EXCEPT ![call[c].key] = NoCall]
  /\ UNCHANGED <<store, client, recent, zone>>

Remove(c) ==
  /\ Goes(c, "remove", "close")
  /\ inflight' = [inflight EXCEPT ![call[c].key] = NoCall]
  /\ UNCHANGED <<store, client, recent, zone>>

\* close(c.done): the clients that hold c see its reply.
Close(c) ==
  /\ call[c].pc = "close"
  /\ call' = [call EXCEPT ![c] = NoWork]
  /\ client' = [p \in Clients |->
                  IF client[p].call = c
                  THEN [client[p] EXCEPT !.call = NoCall, !.got = Served(call[c].reply)]
                  ELSE client[p]]
  /\ UNCHANGED <<store, inflight, recent, zone>>

-----------------------------------------------------------------------------
(* Time and the world. *)

RecheckOver ==
  /\ recent
  /\ recent' = FALSE
  /\ UNCHANGED <<store, inflight, call, client, zone>>

TimePasses ==
  /\ Age
  /\ UNCHANGED <<inflight, call, client, recent, zone>>

ZoneChanges(k) ==
  /\ zone[k] + 1 \in Versions
  /\ zone' = [zone EXCEPT ![k] = @ + 1]
  /\ UNCHANGED <<store, inflight, call, client, recent>>

-----------------------------------------------------------------------------
Resolve(p) ==
  \/ Get(p) \/ GetStale(p) \/ Join(p) \/ \E c \in Calls : StartCall(p, c)
  \/ FailedRecently(p) \/ Wait(p)

Select(p) == Answered(p) \/ Slow(p) \/ CtxDone(p)

CallStep(c) ==
  \/ \E r \in Rcodes \cup {"error"}, t \in Ttls : Exchanged(c, r, {t})
  \/ Put(c) \/ NoteFailure(c) \/ Remove(c) \/ Close(c)

Next ==
  \/ \E p \in Clients : \/ \E kind \in {"other", "failed"} : PassThrough(p, kind)
                        \/ \E k \in Keys : Ask(p, k)
                        \/ Resolve(p) \/ Select(p)
  \/ \E c \in Calls : CallStep(c)
  \/ \E k \in Keys : ZoneChanges(k)
  \/ RecheckOver \/ TimePasses

Spec == Init /\ [][Next]_vars

(* A client runs until its select and takes a reply that is there; the     *)
(* goroutine of a call runs, and its Exchange ends.  No timer of a client  *)
(* is counted upon.  Strong fairness because StartCall may find Calls      *)
(* exhausted for a moment; the code makes a new object then.               *)
Fairness ==
  /\ \A p \in Clients : SF_vars(Resolve(p)) /\ WF_vars(Answered(p))
  /\ \A c \in Calls : WF_vars(CallStep(c))

FairSpec == Spec /\ Fairness
-----------------------------------------------------------------------------
(* Properties. *)

\* OneCallPerKey: for each key there is at most one request at the upstreams, and
\* inflight names it until its answer is in the cache (resolver.go:97-123).
OneCallPerKey ==
  \A c \in Calls :
    IF call[c].pc \in {"exchange", "store", "remove"}
    THEN {k \in Keys : inflight[k] = c} = {call[c].key}
    ELSE {k \in Keys : inflight[k] = c} = {}

\* NobodyForgotten: a client that waits holds a call that is not over, or its
\* reply (resolver.go:99-123).
NobodyForgotten ==
  \A p \in Clients : client[p].pc \in {"check", "wait"} =>
    \/ client[p].got.kind # "none"
    \/ client[p].call # NoCall /\ call[client[p].call].pc # "idle"
                               /\ call[client[p].call].key = client[p].key

\* Consistent: the types, and how the table of calls, the calls and those who wait
\* for them hang together (resolver.go:43-52, 99-123).
Consistent == TypeOK /\ OneCallPerKey /\ NobodyForgotten

\* What the resolver is to a Forwarder: the versions that can still be found in
\* the cache, and the requests of the clients.
Memory == [k \in Keys |-> IF Hit(k) THEN Found(k).msg.ver ELSE None]

RequestOf(r) ==
  [pc |-> CASE r.pc \in {"get", "stale"} -> "asked"
            [] r.pc \in {"shared", "check", "wait"} -> "looked"
            [] OTHER -> r.pc,
   key |-> r.key,
   floor |-> IF r.stale = NoMsg THEN None ELSE r.stale.ver,
   answer |-> r.answer]

Requests == [p \in Clients |-> RequestOf(client[p])]

Forwarded == INSTANCE Forwarder WITH kept <- Memory, req <- Requests

\* Forwards: the resolver is a Forwarder.  A client for which the cache held
\* anything usable never sees an error or SERVFAIL, whichever way out of the
\* select is taken; no answer is older than what the cache held when the client
\* looked, although the look and the call it joins are apart; and the cache only
\* goes forward, which rests on Put coming before the call leaves inflight
\* (resolver.go:54-123).
Forwards == Forwarded!Spec

\* ResolveEnds: every client gets an answer or an error, though its context may
\* never end (resolver.go:54-95).
ResolveEnds == \A p \in Clients : At(p, "get") ~> At(p, "done")

\* RefreshEnds: a request goes on when the client that started it has been served
\* with an outdated answer, and its key is free again in the end
\* (resolver.go:99-123).
RefreshEnds == \A k \in Keys : inflight[k] # NoCall ~> inflight[k] = NoCall

\* AllEnd: nobody is kept waiting, and no key is kept busy (resolver.go:54-123).
AllEnd == ResolveEnds /\ RefreshEnds
=============================================================================
