---------------------------- MODULE Resolver_proof ----------------------------
(***************************************************************************)
(* Proofs about the caching resolver: the table of calls and those who     *)
(* wait for them hang together, and the resolver is a Forwarder, whatever  *)
(* the clients, names, calls, sizes and lifetimes.                         *)
(***************************************************************************)
EXTENDS Resolver, Cache_proof

\* What Close gives a client.
Gots ==
  {NoData("none"), NoData("other"), NoData("failed")}
    \cup {[kind |-> "data", ver |-> v] : v \in Versions}

\* The call c, now w, has an answer that r may still be given.
Carries(c, w, r) ==
  /\ w.reply.rcode = "good"
  /\ \/ w.pc \in {"store", "remove"} /\ w.key = r.key
     \/ w.pc = "close" /\ r.call = c

\* What holds of the client r, by the calls and the zone.
ClientFits(r, calls, zones) ==
  /\ r \in Client /\ r.got \in Gots
  /\ r.pc \in {"idle", "get", "stale", "done"} => r.stale = NoMsg
  /\ r.pc \notin {"check", "wait"} => r.call = NoCall /\ r.got.kind = "none"
  /\ r.pc \in {"check", "wait"} => r.call # NoCall \/ r.got.kind # "none"
  /\ r.call # NoCall => /\ r.got.kind = "none"
                        /\ calls[r.call].pc # "idle" /\ calls[r.call].key = r.key
  /\ r.stale # NoMsg => r.stale.ver <= zones[r.key]
  /\ r.got.kind = "data" => r.got.ver <= zones[r.key]
  /\ r.stale # NoMsg /\ r.got.kind = "data" => r.stale.ver <= r.got.ver
  /\ r.stale # NoMsg => \A c \in Calls :
       Carries(c, calls[c], r) => r.stale.ver <= calls[c].reply.msg.ver

\* What holds of the call c, now w, by the table, the zone and the cache.
CallFits(c, w, table, zones, held) ==
  /\ w \in Call
  /\ \A k \in Keys :
       table[k] = c <=> w.pc \in {"exchange", "store", "remove"} /\ w.key = k
  /\ w.pc \in {"store", "remove", "close"} /\ w.reply.rcode = "good" =>
       w.reply.msg.ver <= zones[w.key]
  /\ w.pc \in {"store", "remove"} /\ w.reply.rcode = "good" /\ w.key \in DOMAIN held =>
       held[w.key].msg.ver <= w.reply.msg.ver

\* The inductive invariant.  The cache, the calls and the clients hold nothing the
\* zone has not had, and nothing older than what it may replace.
CacheFits == CacheConsistent /\ \A k \in byKey : Held[k].msg.ver <= zone[k]

TableOK ==
  /\ inflight \in [Keys -> Calls \cup {NoCall}]
  /\ recent \in BOOLEAN
  /\ zone \in [Keys -> Versions]

Inv ==
  /\ CacheFits /\ TableOK
  /\ call \in [Calls -> Call]
  /\ client \in [Clients -> Client]
  /\ \A c \in Calls : CallFits(c, call[c], inflight, zone, Held)
  /\ \A p \in Clients : ClientFits(client[p], call, zone)

LEMMA InvIsEnough == Inv => Consistent
<1>. SUFFICES ASSUME Inv PROVE Consistent OBVIOUS
<1>1. TypeOK
  BY DEF Inv, CacheFits, CacheConsistent, TableOK, TypeOK
<1>2. OneCallPerKey
  BY DEF Inv, CallFits, OneCallPerKey, Call
<1>3. NobodyForgotten
  BY DEF Inv, ClientFits, NobodyForgotten
<1>. QED BY <1>1, <1>2, <1>3 DEF Consistent

\* Constants.
LEMMA Records ==
  /\ AnyKey \in Keys
  /\ NoWork \in Call
  /\ Idle \in Client /\ \A a \in Answers : Gone(a) \in Client
  /\ NoMsg \notin Message /\ NoCall \notin Calls
  /\ \A m \in Message : m.ver \in Versions /\ m.ver \in Nat /\ m.ver # None
  /\ Gots \subseteq Answers
<1>1. AnyKey \in Keys BY ResolverAssumption DEF AnyKey
<1>2. NoReply \in Reply BY ResolverAssumption DEF NoReply, Reply, Message
<1>3. NoWork \in Call BY <1>1, <1>2 DEF NoWork, Call
<1>4. ASSUME NEW a \in Answers PROVE Gone(a) \in Client
  BY <1>1 DEF Gone, Client, Answers, NoData
<1>5. NoData("none") \in Answers BY DEF NoData, Answers
<1>6. Idle \in Client BY <1>4, <1>5 DEF Idle, Client
<1>7. ASSUME NEW m \in Message PROVE m.ver \in Versions /\ m.ver \in Nat /\ m.ver # None
  <2>1. m.ver \in Versions BY DEF Message
  <2>2. m.ver \in Nat BY <2>1, CacheAssumption
  <2>. QED BY <2>1, <2>2 DEF None
<1>8. Gots \subseteq Answers BY DEF Gots, NoData, Answers
<1>. QED BY <1>1, <1>3, <1>4, <1>6, <1>7, <1>8, ResolverAssumption
-----------------------------------------------------------------------------
(* What steps leave alone. *)

LEMMA HeldDomain == DOMAIN Held = byKey
BY DEF Held

LEMMA HeldKept ==
  ASSUME UNCHANGED store
  PROVE  Held' = Held /\ byKey' = byKey
BY DEF store, Held, Found, Place

LEMMA CacheKept ==
  ASSUME CacheFits, UNCHANGED store, \A k \in Keys : zone'[k] >= zone[k], TableOK, TableOK'
  PROVE  CacheFits' /\ Held' = Held
<1>1. Held' = Held /\ byKey' = byKey BY HeldKept
<1>2. CacheConsistent'
  BY DEF CacheFits, CacheConsistent, CacheTypeOK, MapIsList, store
<1>3. ASSUME NEW k \in byKey PROVE Held[k].msg.ver <= zone'[k]
  <2>1. k \in Keys BY DEF CacheFits, CacheConsistent, CacheTypeOK
  <2>2. Found(k) \in Entry BY FoundType DEF CacheFits
  <2>3. Held[k].msg \in Message BY <2>2 DEF Held, Entry
  <2>4. Held[k].msg.ver \in Nat BY <2>3, Records
  <2>5. zone[k] \in Nat /\ zone'[k] \in Nat BY <2>1, CacheAssumption DEF TableOK
  <2>. QED BY <2>1, <2>4, <2>5 DEF CacheFits
<1>. QED BY <1>1, <1>2, <1>3 DEF CacheFits

LEMMA CacheLooked ==
  ASSUME CacheFits, NEW k \in Keys, Lookup(k), zone' = zone
  PROVE  /\ CacheFits'
         /\ \A x \in DOMAIN Held' : x \in DOMAIN Held /\ Held'[x] = Held[x]
<1>1. CacheConsistent' BY LookupConsistent DEF CacheFits
<1>2. byKey' \subseteq byKey /\ \A x \in byKey' : Held'[x] = Held[x]
  BY HeldAfterLookup DEF CacheFits
<1>3. DOMAIN Held' = byKey' BY DEF Held
<1>. QED BY <1>1, <1>2, <1>3, HeldDomain DEF CacheFits

\* The cache lost answers, or only their age changed.
LEMMA FitsWithLess ==
  ASSUME NEW c, NEW w, NEW table, NEW zones, NEW held, NEW less,
         CallFits(c, w, table, zones, held),
         \A x \in DOMAIN less : x \in DOMAIN held /\ less[x].msg = held[x].msg
  PROVE  CallFits(c, w, table, zones, less)
BY DEF CallFits

\* A step of one client.
LEMMA ClientMoves ==
  ASSUME Inv, NEW p \in Clients, NEW r, ClientFits(r, call, zone), Becomes(p, r),
         UNCHANGED <<inflight, call, recent, zone>>, CacheFits',
         \A x \in DOMAIN Held' : x \in DOMAIN Held /\ Held'[x].msg = Held[x].msg
  PROVE  Inv'
<1>1. TableOK' /\ call' \in [Calls -> Call]
  BY DEF Inv, TableOK
<1>2. r \in Client BY DEF ClientFits
<1>3. client' \in [Clients -> Client] /\ client' = [client EXCEPT ![p] = r]
  BY <1>2 DEF Inv, Becomes
<1>4. ASSUME NEW c \in Calls PROVE CallFits(c, call[c], inflight, zone, Held')
  <2>1. CallFits(c, call[c], inflight, zone, Held) BY DEF Inv
  <2>. QED BY <2>1, FitsWithLess
<1>5. ASSUME NEW q \in Clients PROVE ClientFits(client'[q], call, zone)
  <2>1. client'[q] = IF q = p THEN r ELSE client[q] BY <1>3 DEF Inv
  <2>. QED BY <2>1 DEF Inv
<1>. QED BY <1>1, <1>3, <1>4, <1>5 DEF Inv

\* ... that leaves the cache alone.
LEMMA ClientMovesAlone ==
  ASSUME Inv, NEW p \in Clients, NEW r, ClientFits(r, call, zone), Becomes(p, r),
         UNCHANGED <<store, inflight, call, recent, zone>>
  PROVE  Inv'
<1>1. TableOK /\ TableOK' BY DEF Inv, TableOK
<1>2. \A k \in Keys : zone'[k] >= zone[k]
  <2>1. \A k \in Keys : zone[k] \in Nat BY <1>1, CacheAssumption DEF TableOK
  <2>. QED BY <2>1
<1>3. CacheFits' /\ Held' = Held BY <1>1, <1>2, CacheKept DEF Inv
<1>. QED BY <1>3, ClientMoves

\* Done with whatever answer.
LEMMA GoneFits ==
  ASSUME NEW a \in Answers
  PROVE  ClientFits(Gone(a), call, zone)
<1>1. Gone(a) \in Client BY Records
<1>2. NoData("none").kind = "none" /\ NoData("none") \in Gots BY DEF NoData, Gots
<1>. QED BY <1>1, <1>2 DEF ClientFits, Gone
-----------------------------------------------------------------------------
(* The steps of Resolve. *)

LEMMA ClientKnown ==
  ASSUME Inv, NEW p \in Clients
  PROVE  /\ client[p] \in Client /\ ClientFits(client[p], call, zone)
         /\ client[p].key \in Keys
         /\ client[p].stale # NoMsg => client[p].stale \in Message
BY DEF Inv, Client

\* The steps that answer: whatever the answer, it is one.
LEMMA ReturnStep ==
  ASSUME Inv, NEW p \in Clients, NEW a \in Answers, Return(p, a),
         UNCHANGED <<store, inflight, call, recent, zone>>
  PROVE  Inv'
BY GoneFits, ClientMovesAlone DEF Return

LEMMA DataIsAnswer ==
  ASSUME NEW m \in Message
  PROVE  Data(m) \in Answers
BY DEF Data, Answers, Message

LEMMA NoDataIsAnswer == \A kind \in {"none", "other", "failed"} : NoData(kind) \in Answers
BY DEF NoData, Answers

LEMMA SelectStep ==
  ASSUME Inv, NEW p \in Clients,
         \/ \E kind \in {"other", "failed"} : PassThrough(p, kind)
         \/ FailedRecently(p) \/ Select(p)
  PROVE  Inv'
<1>1. ASSUME NEW kind \in {"other", "failed"}, PassThrough(p, kind) PROVE Inv'
  BY <1>1, GoneFits, NoDataIsAnswer, ClientMovesAlone DEF PassThrough
<1>2. client[p].stale # NoMsg => Data(client[p].stale) \in Answers
  BY ClientKnown, DataIsAnswer
<1>3. client[p].got \in Answers
  BY ClientKnown, Records DEF ClientFits
<1>4. CASE FailedRecently(p)
  BY <1>2, <1>4, ReturnStep DEF FailedRecently
<1>5. CASE Answered(p)
  BY <1>2, <1>3, <1>5, ReturnStep DEF Answered
<1>6. CASE Slow(p)
  BY <1>2, <1>6, ReturnStep DEF Slow
<1>7. CASE CtxDone(p)
  BY <1>2, <1>7, ReturnStep, NoDataIsAnswer DEF CtxDone
<1>. QED BY <1>1, <1>4, <1>5, <1>6, <1>7 DEF Select

LEMMA AskStep ==
  ASSUME Inv, NEW p \in Clients, NEW k \in Keys, Ask(p, k)
  PROVE  Inv'
<1>. DEFINE r == [Idle EXCEPT !.pc = "get", !.key = k]
<1>1. NoData("none").kind = "none" /\ NoData("none") \in Gots /\ NoData("none") \in Answers
  BY NoDataIsAnswer DEF NoData, Gots
<1>2. Idle \in Client /\ Idle.stale = NoMsg /\ Idle.call = NoCall /\ Idle.got = NoData("none")
  BY Records DEF Idle, Gone
<1>3. r \in Client /\ r.pc = "get" /\ r.stale = NoMsg /\ r.call = NoCall /\ r.got = NoData("none")
  BY <1>2 DEF Client
<1>. HIDE DEF r
<1>4. ClientFits(r, call, zone) BY <1>1, <1>3 DEF ClientFits
<1>. QED BY <1>4, ClientMovesAlone DEF Ask, r

\* Get: answered from the cache, or on to GetStale.
LEMMA GetStep ==
  ASSUME Inv, NEW p \in Clients, Get(p)
  PROVE  Inv'
<1>. DEFINE k == client[p].key
            r == [client[p] EXCEPT !.pc = "stale"]
<1>1. k \in Keys /\ Lookup(k) /\ UNCHANGED <<inflight, call, recent, zone>>
  BY ClientKnown DEF Get
<1>2. /\ CacheFits'
      /\ \A x \in DOMAIN Held' : x \in DOMAIN Held /\ Held'[x] = Held[x]
  BY <1>1, CacheLooked DEF Inv
<1>3. CASE FreshHit(k) /\ Return(p, Data(Found(k).msg))
  <2>1. Found(k) \in Entry BY <1>3, FoundType DEF FreshHit, Hit, Inv, CacheFits
  <2>2. Data(Found(k).msg) \in Answers BY <2>1, DataIsAnswer DEF Entry
  <2>. QED BY <1>1, <1>2, <1>3, <2>2, GoneFits, ClientMoves DEF Return
<1>4. CASE Becomes(p, r)
  <2>1. client[p] \in Client /\ ClientFits(client[p], call, zone) /\ client[p].pc = "get"
    BY ClientKnown DEF Get, At
  <2>2. /\ r \in Client /\ r.pc = "stale" /\ r.stale = client[p].stale /\ r.key = client[p].key
        /\ r.call = client[p].call /\ r.got = client[p].got
    BY <2>1 DEF Client
  <2>. HIDE DEF r
  <2>3. ClientFits(r, call, zone)
    BY <2>1, <2>2, Records DEF ClientFits
  <2>. QED BY <1>1, <1>2, <1>4, <2>3, ClientMoves
<1>. QED BY <1>3, <1>4 DEF Get

\* GetStale: what it finds is not newer than what any call will bring.
LEMMA GetStaleStep ==
  ASSUME Inv, NEW p \in Clients, GetStale(p)
  PROVE  Inv'
<1>. DEFINE k == client[p].key
            m == IF Hit(k) THEN Found(k).msg ELSE NoMsg
            r == [client[p] EXCEPT !.pc = "shared", !.stale = m]
<1>1. k \in Keys /\ Lookup(k) /\ UNCHANGED <<inflight, call, recent, zone>> /\ Becomes(p, r)
  BY ClientKnown DEF GetStale
<1>2. /\ CacheFits'
      /\ \A x \in DOMAIN Held' : x \in DOMAIN Held /\ Held'[x] = Held[x]
  BY <1>1, CacheLooked DEF Inv
<1>3. m # NoMsg => k \in DOMAIN Held /\ m = Held[k].msg /\ m \in Message /\ m.ver <= zone[k]
  <2>. SUFFICES ASSUME Hit(k) PROVE k \in DOMAIN Held /\ m = Held[k].msg /\ m \in Message /\ m.ver <= zone[k]
    OBVIOUS
  <2>1. k \in byKey BY DEF Hit
  <2>2. Found(k) \in Entry BY <2>1, FoundType DEF Inv, CacheFits
  <2>3. m = Held[k].msg BY <2>1 DEF Held
  <2>4. Held[k].msg.ver <= zone[k] BY <2>1 DEF Inv, CacheFits
  <2>. QED BY <2>1, <2>2, <2>3, <2>4, HeldDomain DEF Entry
<1>. HIDE DEF m
<1>4. client[p] \in Client /\ ClientFits(client[p], call, zone) /\ client[p].pc = "stale"
  BY ClientKnown DEF GetStale, At
<1>5. /\ r \in Client /\ r.pc = "shared" /\ r.stale = m /\ r.key = k
      /\ r.call = client[p].call /\ r.got = client[p].got
  BY <1>3, <1>4 DEF Client
<1>. HIDE DEF r, k
<1>6. ASSUME m # NoMsg, NEW c \in Calls, Carries(c, call[c], r) PROVE m.ver <= call[c].reply.msg.ver
  <2>1. CallFits(c, call[c], inflight, zone, Held) BY DEF Inv
  <2>2. r.call # c BY <1>4, <1>5, Records DEF ClientFits
  <2>3. call[c].pc \in {"store", "remove"} /\ call[c].key = k /\ call[c].reply.rcode = "good"
    BY <1>5, <1>6, <2>2 DEF Carries
  <2>. QED BY <1>3, <1>6, <2>1, <2>3 DEF CallFits
<1>7. ClientFits(r, call, zone)
  BY <1>3, <1>4, <1>5, <1>6, Records DEF ClientFits
<1>. QED BY <1>1, <1>2, <1>7, ClientMoves

LEMMA JoinStep ==
  ASSUME Inv, NEW p \in Clients, Join(p)
  PROVE  Inv'
<1>. DEFINE k == client[p].key
            c == inflight[k]
            r == [client[p] EXCEPT !.pc = "check", !.call = c]
<1>1. /\ k \in Keys /\ c \in Calls /\ Becomes(p, r)
      /\ UNCHANGED <<store, inflight, call, recent, zone>>
  BY ClientKnown DEF Join, Inv, TableOK
<1>2. call[c].pc \in {"exchange", "store", "remove"} /\ call[c].key = k
  BY <1>1 DEF Inv, CallFits
<1>3. client[p] \in Client /\ ClientFits(client[p], call, zone) /\ client[p].pc = "shared"
  BY ClientKnown DEF Join, At
<1>. HIDE DEF c
<1>4. /\ r \in Client /\ r.pc = "check" /\ r.stale = client[p].stale /\ r.key = k
      /\ r.call = c /\ r.got = client[p].got
  BY <1>1, <1>3 DEF Client
<1>. HIDE DEF r
<1>5. ASSUME NEW d \in Calls, Carries(d, call[d], r) PROVE Carries(d, call[d], client[p])
  BY <1>2, <1>4, <1>5 DEF Carries
<1>6. ClientFits(r, call, zone)
  BY <1>1, <1>2, <1>3, <1>4, <1>5, Records DEF ClientFits
<1>. QED BY <1>1, <1>6, ClientMovesAlone

LEMMA WaitStep ==
  ASSUME Inv, NEW p \in Clients, Wait(p)
  PROVE  Inv'
<1>. DEFINE r == [client[p] EXCEPT !.pc = "wait"]
<1>1. client[p] \in Client /\ ClientFits(client[p], call, zone) /\ client[p].pc = "check"
  BY ClientKnown DEF Wait, At
<1>2. /\ r \in Client /\ r.pc = "wait" /\ r.stale = client[p].stale /\ r.key = client[p].key
      /\ r.call = client[p].call /\ r.got = client[p].got
  BY <1>1 DEF Client
<1>. HIDE DEF r
<1>3. ASSUME NEW c \in Calls PROVE Carries(c, call[c], r) <=> Carries(c, call[c], client[p])
  BY <1>2 DEF Carries
<1>4. ClientFits(r, call, zone)
  BY <1>1, <1>2, <1>3 DEF ClientFits
<1>. QED BY <1>4, ClientMovesAlone DEF Wait, r
-----------------------------------------------------------------------------
(* The steps of a call. *)

LEMMA CallKnown ==
  ASSUME Inv, NEW c \in Calls
  PROVE  /\ call[c] \in Call /\ CallFits(c, call[c], inflight, zone, Held)
         /\ call[c].key \in Keys /\ call[c].reply \in Reply
BY DEF Inv, Call

\* A client does not notice what another call does that it could not be given.
LEMMA FitsOtherCall ==
  ASSUME NEW r, NEW calls, NEW zones, NEW c \in Calls, NEW w,
         calls \in [Calls -> Call], w \in Call,
         ClientFits(r, calls, zones),
         r.call = c => w.pc # "idle" /\ w.key = calls[c].key,
         r.stale # NoMsg /\ Carries(c, w, r) => r.stale.ver <= w.reply.msg.ver
  PROVE  ClientFits(r, [calls EXCEPT ![c] = w], zones)
<1>. DEFINE new == [calls EXCEPT ![c] = w]
<1>1. \A d \in Calls : new[d] = IF d = c THEN w ELSE calls[d]
  OBVIOUS
<1>. HIDE DEF new
<1>2. r.call # NoCall => r.call \in Calls
  BY DEF ClientFits, Client
<1>3. ClientFits(r, new, zones)
  BY <1>1, <1>2 DEF ClientFits
<1>. QED BY <1>3 DEF new

\* A step of a call that changes no client.
LEMMA CallMoves ==
  ASSUME Inv, NEW c \in Calls, NEW w \in Call, call' = [call EXCEPT ![c] = w],
         UNCHANGED <<client, zone>>, TableOK', CacheFits',
         CallFits(c, w, inflight', zone, Held'),
         \A d \in Calls \ {c} : CallFits(d, call[d], inflight', zone, Held'),
         w.pc # "idle", w.key = call[c].key,
         \A p \in Clients : client[p].stale # NoMsg /\ Carries(c, w, client[p]) =>
           client[p].stale.ver <= w.reply.msg.ver
  PROVE  Inv'
<1>1. call' \in [Calls -> Call] /\ client' \in [Clients -> Client]
  BY DEF Inv
<1>2. ASSUME NEW d \in Calls PROVE CallFits(d, call'[d], inflight', zone, Held')
  <2>1. call'[d] = IF d = c THEN w ELSE call[d] BY DEF Inv
  <2>. QED BY <2>1
<1>3. ASSUME NEW p \in Clients PROVE ClientFits(client[p], call', zone)
  <2>1. ClientFits(client[p], call, zone) /\ call \in [Calls -> Call] BY DEF Inv
  <2>2. ClientFits(client[p], [call EXCEPT ![c] = w], zone) BY <2>1, FitsOtherCall
  <2>. QED BY <2>2
<1>. QED BY <1>1, <1>2, <1>3 DEF Inv

LEMMA ZoneNotBack ==
  ASSUME TableOK, zone' = zone
  PROVE  \A k \in Keys : zone'[k] >= zone[k]
<1>1. \A k \in Keys : zone[k] \in Nat BY CacheAssumption DEF TableOK
<1>. QED BY <1>1

LEMMA ExchangedStep ==
  ASSUME Inv, NEW c \in Calls, NEW rcode \in Rcodes \cup {"error"}, NEW t \in Ttls,
         Exchanged(c, rcode, {t})
  PROVE  Inv'
<1>. DEFINE k == call[c].key
            m == [ver |-> IF rcode = "good" THEN zone[k] ELSE 0,
                  ttls |-> IF rcode = "good" THEN {t} ELSE {}]
            y == [rcode |-> rcode, msg |-> m]
            w == [call[c] EXCEPT !.pc = "store", !.reply = y]
<1>1. /\ call[c] \in Call /\ CallFits(c, call[c], inflight, zone, Held) /\ k \in Keys
      /\ call[c].pc = "exchange"
  BY CallKnown DEF Exchanged
<1>2. zone[k] \in Versions /\ zone[k] \in Nat BY <1>1, CacheAssumption DEF Inv, TableOK
<1>3. m \in Message BY <1>2, ResolverAssumption DEF Message
<1>4. y \in Reply /\ y.rcode = rcode /\ (rcode = "good" => y.msg.ver = zone[k])
  BY <1>3 DEF Reply
<1>5. call' = [call EXCEPT ![c] = w] /\ UNCHANGED <<store, inflight, client, recent, zone>>
  BY DEF Exchanged
<1>. HIDE DEF y, m
<1>6. w \in Call /\ w.pc = "store" /\ w.key = k /\ w.reply = y
  BY <1>1, <1>4 DEF Call
<1>. HIDE DEF w, k
<1>7. TableOK /\ TableOK' BY <1>5 DEF Inv, TableOK
<1>8. CacheFits' /\ Held' = Held
  BY <1>5, <1>7, CacheKept, ZoneNotBack DEF Inv
<1>9. CallFits(c, w, inflight, zone, Held)
  <2>1. k \in DOMAIN Held => Held[k].msg.ver <= zone[k]
    BY HeldDomain DEF Inv, CacheFits
  <2>. QED BY <1>1, <1>2, <1>4, <1>6, <2>1 DEF CallFits, k
<1>10. ASSUME NEW p \in Clients, client[p].stale # NoMsg, Carries(c, w, client[p])
       PROVE  client[p].stale.ver <= w.reply.msg.ver
  <2>1. client[p].key = k /\ (rcode = "good" \/ y.rcode = "good")
    BY <1>6, <1>10 DEF Carries
  <2>2. client[p].stale.ver <= zone[client[p].key] BY <1>10, ClientKnown DEF ClientFits
  <2>. QED BY <1>4, <1>6, <2>1, <2>2
<1>11. \A d \in Calls \ {c} : CallFits(d, call[d], inflight', zone, Held')
  BY <1>5, <1>8 DEF Inv
<1>12. CallFits(c, w, inflight', zone, Held')
  BY <1>5, <1>8, <1>9
<1>13. w.pc # "idle" /\ w.key = call[c].key BY <1>6 DEF k
<1>. QED BY <1>5, <1>6, <1>7, <1>8, <1>10, <1>11, <1>12, <1>13, CallMoves

\* The call goes on with the same answer.
LEMMA CallGoesOn ==
  ASSUME Inv, NEW c \in Calls, NEW from, NEW to \in {"store", "remove", "close"},
         Goes(c, from, to)
  PROVE  LET w == [call[c] EXCEPT !.pc = to]
         IN  /\ call' = [call EXCEPT ![c] = w]
             /\ w \in Call /\ w.pc = to /\ w.key = call[c].key /\ w.reply = call[c].reply
<1>1. call[c] \in Call BY CallKnown
<1>. QED BY <1>1 DEF Goes, Call, Inv

LEMMA NoteFailureStep ==
  ASSUME Inv, NEW c \in Calls, NoteFailure(c)
  PROVE  Inv'
<1>. DEFINE w == [call[c] EXCEPT !.pc = "remove"]
<1>1. /\ call' = [call EXCEPT ![c] = w]
      /\ w \in Call /\ w.pc = "remove" /\ w.key = call[c].key /\ w.reply = call[c].reply
  BY CallGoesOn DEF NoteFailure
<1>. HIDE DEF w
<1>2. /\ UNCHANGED <<store, inflight, client, zone>> /\ recent' = TRUE
      /\ call[c].pc = "store" /\ call[c].reply.rcode = "error"
  BY DEF NoteFailure, Goes
<1>3. TableOK /\ TableOK' BY <1>2 DEF Inv, TableOK
<1>4. CacheFits' /\ Held' = Held
  BY <1>2, <1>3, CacheKept, ZoneNotBack DEF Inv
<1>5. CallFits(c, w, inflight, zone, Held)
  BY <1>1, <1>2, CallKnown DEF CallFits
<1>6. \A d \in Calls \ {c} : CallFits(d, call[d], inflight', zone, Held')
  BY <1>2, <1>4 DEF Inv
<1>7. CallFits(c, w, inflight', zone, Held') /\ w.pc # "idle"
  BY <1>1, <1>2, <1>4, <1>5
<1>8. \A p \in Clients : ~Carries(c, w, client[p])
  BY <1>1, <1>2 DEF Carries
<1>. QED BY <1>1, <1>2, <1>3, <1>4, <1>6, <1>7, <1>8, CallMoves

\* Put: no other call of this key is under way, so nothing newer is replaced.
LEMMA PutStep ==
  ASSUME Inv, NEW c \in Calls, Put(c)
  PROVE  Inv'
<1>. DEFINE w == [call[c] EXCEPT !.pc = "remove"]
            k == call[c].key
            m == call[c].reply.msg
<1>1. /\ call' = [call EXCEPT ![c] = w]
      /\ w \in Call /\ w.pc = "remove" /\ w.key = k /\ w.reply = call[c].reply
  BY CallGoesOn DEF Put
<1>. HIDE DEF w
<1>2. UNCHANGED <<inflight, client, recent, zone>> /\ call[c].pc = "store"
  BY DEF Put, Goes
<1>3. TableOK /\ TableOK' BY <1>2 DEF Inv, TableOK
<1>4. /\ CallFits(c, call[c], inflight, zone, Held)
      /\ k \in Keys /\ m \in Message /\ m.ver \in Nat
  BY CallKnown, Records DEF Reply
<1>5. /\ CacheFits'
      /\ \A d \in Calls \ {c} : CallFits(d, call[d], inflight, zone, Held')
      /\ CallFits(c, w, inflight, zone, Held')
  <2>1. CASE call[c].reply.rcode = "good"
    <3>1. Store(k, m) BY <2>1 DEF Put
    <3>2. /\ k \in byKey' /\ byKey' \subseteq byKey \cup {k}
          /\ Held'[k] = [key |-> k, msg |-> m, ttl |-> RespTtl(m), age |-> 0]
          /\ \A x \in byKey' \ {k} : Held'[x] = Held[x]
      BY <1>4, <3>1, HeldAfterStore DEF Inv, CacheFits
    <3>3. Held'[k].msg = m BY <3>2
    <3>4. DOMAIN Held' = byKey' BY DEF Held
    <3>5. m.ver <= zone[k] BY <1>2, <1>4, <2>1 DEF CallFits
    <3>6. CacheFits'
      <4>1. CacheConsistent' BY <1>4, <3>1, StoreConsistent DEF Inv, CacheFits
      <4>2. \A x \in byKey' : Held'[x].msg.ver <= zone[x]
        BY <3>2, <3>3, <3>5 DEF Inv, CacheFits
      <4>. QED BY <1>2, <4>1, <4>2 DEF CacheFits
    <3>7. ASSUME NEW d \in Calls \ {c} PROVE CallFits(d, call[d], inflight, zone, Held')
      <4>1. CallFits(d, call[d], inflight, zone, Held) BY DEF Inv
      <4>2. inflight[k] = c BY <1>2, <1>4 DEF CallFits
      <4>3. call[d].pc \in {"store", "remove"} => call[d].key # k
        BY <1>4, <4>1, <4>2 DEF CallFits
      <4>. QED BY <3>2, <3>4, <4>1, <4>3, HeldDomain DEF CallFits
    <3>8. CallFits(c, w, inflight, zone, Held')
      BY <1>1, <1>2, <1>4, <3>3, <3>5 DEF CallFits
    <3>. QED BY <3>6, <3>7, <3>8
  <2>2. CASE UNCHANGED store /\ call[c].reply.rcode # "good"
    <3>1. CacheFits' /\ Held' = Held
      BY <1>2, <1>3, <2>2, CacheKept, ZoneNotBack DEF Inv
    <3>2. CallFits(c, w, inflight, zone, Held)
      BY <1>1, <1>2, <1>4, <2>2 DEF CallFits
    <3>. QED BY <3>1, <3>2 DEF Inv
  <2>. QED BY <2>1, <2>2 DEF Put
<1>6. \A p \in Clients : client[p].stale # NoMsg /\ Carries(c, w, client[p]) =>
        client[p].stale.ver <= w.reply.msg.ver
  <2>. SUFFICES ASSUME NEW p \in Clients, client[p].stale # NoMsg, Carries(c, w, client[p])
                PROVE  client[p].stale.ver <= w.reply.msg.ver
    OBVIOUS
  <2>1. Carries(c, call[c], client[p]) BY <1>1, <1>2 DEF Carries
  <2>. QED BY <1>1, <2>1, ClientKnown DEF ClientFits
<1>. QED BY <1>1, <1>2, <1>3, <1>5, <1>6, CallMoves

LEMMA RemoveStep ==
  ASSUME Inv, NEW c \in Calls, Remove(c)
  PROVE  Inv'
<1>. DEFINE w == [call[c] EXCEPT !.pc = "close"]
            k == call[c].key
<1>1. /\ call' = [call EXCEPT ![c] = w]
      /\ w \in Call /\ w.pc = "close" /\ w.key = k /\ w.reply = call[c].reply
  BY CallGoesOn DEF Remove
<1>. HIDE DEF w
<1>2. /\ UNCHANGED <<store, client, recent, zone>> /\ call[c].pc = "remove"
      /\ inflight' = [inflight EXCEPT ![k] = NoCall]
  BY DEF Remove, Goes
<1>3. TableOK /\ TableOK' BY <1>2 DEF Inv, TableOK
<1>4. CacheFits' /\ Held' = Held
  BY <1>2, <1>3, CacheKept, ZoneNotBack DEF Inv
<1>5. CallFits(c, call[c], inflight, zone, Held) /\ k \in Keys /\ inflight[k] = c
  BY <1>2, CallKnown DEF CallFits
<1>6. \A j \in Keys : inflight'[j] = IF j = k THEN NoCall ELSE inflight[j]
  BY <1>2, <1>3 DEF TableOK
<1>7. CallFits(c, w, inflight', zone, Held)
  BY <1>1, <1>2, <1>5, <1>6, Records DEF CallFits
<1>8. ASSUME NEW d \in Calls \ {c} PROVE CallFits(d, call[d], inflight', zone, Held)
  <2>1. CallFits(d, call[d], inflight, zone, Held) BY DEF Inv
  <2>2. \A j \in Keys : inflight'[j] = d <=> inflight[j] = d
    BY <1>5, <1>6, Records
  <2>. QED BY <2>1, <2>2 DEF CallFits
<1>9. ASSUME NEW p \in Clients, client[p].stale # NoMsg, Carries(c, w, client[p])
      PROVE  client[p].stale.ver <= w.reply.msg.ver
  <2>1. client[p].call = c BY <1>1, <1>9 DEF Carries
  <2>2. client[p].key = k BY <2>1, ClientKnown, Records DEF ClientFits
  <2>3. Carries(c, call[c], client[p]) BY <1>1, <1>2, <1>9, <2>2 DEF Carries
  <2>. QED BY <1>1, <1>9, <2>3, ClientKnown DEF ClientFits
<1>10. \A d \in Calls \ {c} : CallFits(d, call[d], inflight', zone, Held')
  BY <1>4, <1>8
<1>11. CallFits(c, w, inflight', zone, Held') /\ w.pc # "idle"
  BY <1>1, <1>4, <1>7
<1>. QED BY <1>1, <1>2, <1>3, <1>4, <1>9, <1>10, <1>11, CallMoves

LEMMA StartCallStep ==
  ASSUME Inv, NEW p \in Clients, NEW c \in Calls, StartCall(p, c)
  PROVE  Inv'
<1>. DEFINE k == client[p].key
            w == [NoWork EXCEPT !.pc = "exchange", !.key = k]
            r == [client[p] EXCEPT !.pc = "check", !.call = c]
<1>1. /\ client[p] \in Client /\ ClientFits(client[p], call, zone) /\ client[p].pc = "shared"
      /\ k \in Keys /\ inflight[k] = NoCall /\ call[c].pc = "idle"
  BY ClientKnown DEF StartCall, At
<1>2. /\ call' = [call EXCEPT ![c] = w] /\ client' = [client EXCEPT ![p] = r]
      /\ inflight' = [inflight EXCEPT ![k] = c] /\ UNCHANGED <<store, recent, zone>>
  BY DEF StartCall, Becomes
<1>3. w \in Call /\ w.pc = "exchange" /\ w.key = k
  BY <1>1, Records DEF Call
<1>4. /\ r \in Client /\ r.pc = "check" /\ r.stale = client[p].stale /\ r.key = k
      /\ r.call = c /\ r.got = client[p].got
  BY <1>1 DEF Client
<1>. HIDE DEF w, r
<1>5. TableOK /\ TableOK' BY <1>1, <1>2 DEF Inv, TableOK
<1>6. CacheFits' /\ Held' = Held
  BY <1>2, <1>5, CacheKept, ZoneNotBack DEF Inv
<1>7. \A j \in Keys : inflight'[j] = IF j = k THEN c ELSE inflight[j]
  BY <1>2, <1>5 DEF TableOK
<1>8. \A d \in Calls : call'[d] = IF d = c THEN w ELSE call[d]
  BY <1>2 DEF Inv
<1>9. ASSUME NEW d \in Calls PROVE CallFits(d, call'[d], inflight', zone, Held)
  <2>1. CallFits(d, call[d], inflight, zone, Held) BY DEF Inv
  <2>2. CASE d = c
    <3>1. \A j \in Keys : inflight[j] # c BY <1>1, <2>1, <2>2 DEF CallFits
    <3>. QED BY <1>3, <1>7, <1>8, <2>2, <3>1 DEF CallFits
  <2>3. CASE d # c
    <3>1. inflight[k] # d BY <1>1, Records
    <3>2. \A j \in Keys : inflight'[j] = d <=> inflight[j] = d BY <1>7, <2>3, <3>1
    <3>. QED BY <1>8, <2>1, <2>3, <3>2 DEF CallFits
  <2>. QED BY <2>2, <2>3
<1>10. ASSUME NEW q \in Clients PROVE ClientFits(client[q], call', zone)
  <2>1. ClientFits(client[q], call, zone) /\ call \in [Calls -> Call] BY DEF Inv
  <2>2. client[q].call # c BY <1>1, <2>1, Records DEF ClientFits
  <2>3. ~Carries(c, w, client[q]) BY <1>3 DEF Carries
  <2>4. ClientFits(client[q], [call EXCEPT ![c] = w], zone)
    BY <1>3, <2>1, <2>2, <2>3, FitsOtherCall
  <2>. QED BY <1>2, <2>4
<1>11. ClientFits(r, call', zone)
  <2>1. ClientFits(client[p], call', zone) BY <1>10
  <2>2. \A d \in Calls : Carries(d, call'[d], r) => Carries(d, call'[d], client[p])
    BY <1>3, <1>4, <1>8 DEF Carries
  <2>3. call'[c].pc # "idle" /\ call'[c].key = k BY <1>3, <1>8
  <2>. QED BY <1>1, <1>4, <2>1, <2>2, <2>3, Records DEF ClientFits
<1>12. ASSUME NEW q \in Clients PROVE ClientFits(client'[q], call', zone)
  <2>1. client'[q] = IF q = p THEN r ELSE client[q] BY <1>2 DEF Inv
  <2>. QED BY <1>10, <1>11, <2>1
<1>13. call' \in [Calls -> Call] /\ client' \in [Clients -> Client]
  BY <1>2, <1>3, <1>4 DEF Inv
<1>14. \A d \in Calls : CallFits(d, call'[d], inflight', zone', Held')
  BY <1>2, <1>6, <1>9
<1>15. \A q \in Clients : ClientFits(client'[q], call', zone')
  BY <1>2, <1>12
<1>. QED BY <1>5, <1>6, <1>13, <1>14, <1>15 DEF Inv

\* Close: who holds the call gets its answer, and is the only one to.
LEMMA CloseStep ==
  ASSUME Inv, NEW c \in Calls, Close(c)
  PROVE  Inv'
<1>. DEFINE y == call[c].reply
            k == call[c].key
            given(q) == [client[q] EXCEPT !.call = NoCall, !.got = Served(y)]
<1>1. /\ call[c] \in Call /\ CallFits(c, call[c], inflight, zone, Held)
      /\ k \in Keys /\ y \in Reply /\ call[c].pc = "close"
  BY CallKnown DEF Close
<1>2. /\ call' = [call EXCEPT ![c] = NoWork] /\ UNCHANGED <<store, inflight, recent, zone>>
      /\ client' = [q \in Clients |-> IF client[q].call = c THEN given(q) ELSE client[q]]
  BY DEF Close
<1>3. NoWork \in Call /\ NoWork.pc = "idle" /\ NoWork.reply.rcode = "error"
  BY Records DEF NoWork, NoReply
<1>4. TableOK /\ TableOK' BY <1>2 DEF Inv, TableOK
<1>5. CacheFits' /\ Held' = Held
  BY <1>2, <1>4, CacheKept, ZoneNotBack DEF Inv
<1>6. \A d \in Calls : call'[d] = IF d = c THEN NoWork ELSE call[d]
  BY <1>2 DEF Inv
<1>7. ASSUME NEW d \in Calls PROVE CallFits(d, call'[d], inflight, zone, Held)
  <2>1. CallFits(d, call[d], inflight, zone, Held) BY DEF Inv
  <2>. QED BY <1>1, <1>3, <1>6, <2>1 DEF CallFits
<1>8. /\ Served(y) \in Gots /\ Served(y).kind # "none"
      /\ Served(y).kind = "data" => y.rcode = "good" /\ Served(y).ver = y.msg.ver
  <2>1. y.rcode \in Rcodes \cup {"error"} /\ y.msg \in Message BY <1>1 DEF Reply
  <2>2. y.msg.ver \in Versions BY <2>1, Records
  <2>3. CASE y.rcode = "good"
    <3>1. Served(y) = [kind |-> "data", ver |-> y.msg.ver] BY <2>3 DEF Served, Data
    <3>. QED BY <2>2, <2>3, <3>1 DEF Gots
  <2>4. CASE y.rcode = "other"
    BY <2>4 DEF Served, NoData, Gots
  <2>5. CASE y.rcode \in {"servfail", "error"}
    <3>1. Served(y) = NoData("failed") BY <2>5 DEF Served
    <3>. QED BY <3>1 DEF NoData, Gots
  <2>. QED BY <2>1, <2>3, <2>4, <2>5 DEF Rcodes
<1>9. ASSUME NEW q \in Clients, client[q].call = c PROVE ClientFits(given(q), call', zone)
  <2>. DEFINE r == given(q)
  <2>1. client[q] \in Client /\ ClientFits(client[q], call, zone) BY ClientKnown
  <2>2. /\ r \in Client /\ r.pc = client[q].pc /\ r.key = client[q].key
        /\ r.stale = client[q].stale /\ r.call = NoCall /\ r.got = Served(y)
    BY <1>8, <2>1, Records DEF Client
  <2>. HIDE DEF r
  <2>3. client[q].key = k /\ client[q].pc \in {"check", "wait"}
    BY <1>9, <2>1, Records DEF ClientFits
  <2>4. y.rcode = "good" => y.msg.ver <= zone[k]
    BY <1>1 DEF CallFits
  <2>5. client[q].stale # NoMsg /\ y.rcode = "good" => client[q].stale.ver <= y.msg.ver
    <3>1. y.rcode = "good" => Carries(c, call[c], client[q])
      BY <1>1, <1>9 DEF Carries
    <3>. QED BY <2>1, <3>1 DEF ClientFits
  <2>6. \A d \in Calls : Carries(d, call'[d], r) => d # c /\ Carries(d, call[d], client[q])
    BY <1>3, <1>6, <2>2, Records DEF Carries
  <2>7. r.stale # NoMsg => \A d \in Calls :
          Carries(d, call'[d], r) => r.stale.ver <= call'[d].reply.msg.ver
    BY <1>6, <2>1, <2>2, <2>6 DEF ClientFits
  <2>8. ClientFits(r, call', zone)
    BY <1>8, <2>1, <2>2, <2>3, <2>4, <2>5, <2>7, Records DEF ClientFits
  <2>. QED BY <2>8 DEF r
<1>10. ASSUME NEW q \in Clients, client[q].call # c PROVE ClientFits(client[q], call', zone)
  <2>1. ClientFits(client[q], call, zone) /\ call \in [Calls -> Call] BY DEF Inv
  <2>2. ~Carries(c, NoWork, client[q]) BY <1>3 DEF Carries
  <2>3. ClientFits(client[q], [call EXCEPT ![c] = NoWork], zone)
    BY <1>3, <1>10, <2>1, <2>2, FitsOtherCall
  <2>. QED BY <1>2, <2>3
<1>. HIDE DEF given
<1>11. ASSUME NEW q \in Clients PROVE ClientFits(client'[q], call', zone)
  <2>1. client'[q] = IF client[q].call = c THEN given(q) ELSE client[q] BY <1>2
  <2>. QED BY <1>9, <1>10, <2>1
<1>12. call' \in [Calls -> Call] /\ client' \in [Clients -> Client]
  <2>1. call' \in [Calls -> Call] BY <1>2, <1>3 DEF Inv
  <2>2. \A q \in Clients : client'[q] \in Client BY <1>11 DEF ClientFits
  <2>. QED BY <1>2, <2>1, <2>2
<1>13. \A d \in Calls : CallFits(d, call'[d], inflight', zone', Held')
  BY <1>2, <1>5, <1>7
<1>14. \A q \in Clients : ClientFits(client'[q], call', zone')
  BY <1>2, <1>11
<1>. QED BY <1>4, <1>5, <1>12, <1>13, <1>14 DEF Inv
-----------------------------------------------------------------------------
(* Time and the world, and consistency. *)

LEMMA RecheckOverStep ==
  ASSUME Inv, RecheckOver
  PROVE  Inv'
<1>1. UNCHANGED <<store, inflight, call, client, zone>> /\ recent' = FALSE
  BY DEF RecheckOver
<1>2. TableOK /\ TableOK' BY <1>1 DEF Inv, TableOK
<1>3. CacheFits' /\ Held' = Held
  BY <1>1, <1>2, CacheKept, ZoneNotBack DEF Inv
<1>. QED BY <1>1, <1>2, <1>3 DEF Inv

LEMMA TimePassesStep ==
  ASSUME Inv, TimePasses
  PROVE  Inv'
<1>1. Age /\ UNCHANGED <<inflight, call, client, recent, zone>>
  BY DEF TimePasses
<1>2. /\ byKey' = byKey
      /\ \A x \in byKey : Held'[x].msg = Held[x].msg
  BY <1>1, HeldAfterAge DEF Inv, CacheFits
<1>3. DOMAIN Held' = DOMAIN Held BY <1>2 DEF Held
<1>4. CacheFits'
  <2>1. CacheConsistent' BY <1>1, AgeConsistent DEF Inv, CacheFits
  <2>. QED BY <1>1, <1>2, <2>1 DEF Inv, CacheFits
<1>5. TableOK' BY <1>1 DEF Inv, TableOK
<1>6. ASSUME NEW c \in Calls PROVE CallFits(c, call[c], inflight, zone, Held')
  <2>1. CallFits(c, call[c], inflight, zone, Held) BY DEF Inv
  <2>. QED BY <1>2, <1>3, <2>1, HeldDomain, FitsWithLess
<1>. QED BY <1>1, <1>4, <1>5, <1>6 DEF Inv

LEMMA ZoneChangesStep ==
  ASSUME Inv, NEW k \in Keys, ZoneChanges(k)
  PROVE  Inv'
<1>1. /\ UNCHANGED <<store, inflight, call, client, recent>>
      /\ zone[k] + 1 \in Versions /\ zone' = [zone EXCEPT ![k] = zone[k] + 1]
  BY DEF ZoneChanges
<1>2. TableOK /\ TableOK' BY <1>1 DEF Inv, TableOK
<1>3. ASSUME NEW j \in Keys PROVE zone[j] \in Nat /\ zone'[j] \in Nat /\ zone'[j] >= zone[j]
  <2>1. zone[j] \in Nat /\ zone'[j] \in Nat BY <1>2, CacheAssumption DEF TableOK
  <2>2. zone'[j] = IF j = k THEN zone[k] + 1 ELSE zone[j] BY <1>1, <1>2 DEF TableOK
  <2>. QED BY <2>1, <2>2
<1>4. CacheFits' /\ Held' = Held
  BY <1>1, <1>2, <1>3, CacheKept DEF Inv
<1>5. ASSUME NEW c \in Calls PROVE CallFits(c, call[c], inflight, zone', Held)
  <2>1. CallFits(c, call[c], inflight, zone, Held) /\ call[c].key \in Keys
    BY CallKnown
  <2>2. call[c].reply.msg.ver \in Nat
    <3>1. call[c].reply.msg \in Message BY CallKnown DEF Reply
    <3>. QED BY <3>1, Records
  <2>. QED BY <1>3, <2>1, <2>2 DEF CallFits
<1>6. ASSUME NEW p \in Clients PROVE ClientFits(client[p], call, zone')
  <2>. DEFINE r == client[p]
  <2>1. ClientFits(r, call, zone) /\ r.key \in Keys
    BY ClientKnown
  <2>2. r.stale # NoMsg => r.stale.ver \in Nat BY ClientKnown, Records
  <2>3. r.got.kind = "data" => r.got.ver \in Nat
    BY <2>1, CacheAssumption DEF ClientFits, Gots, NoData
  <2>. HIDE DEF r
  <2>4. r.stale # NoMsg => r.stale.ver <= zone'[r.key]
    BY <1>3, <2>1, <2>2 DEF ClientFits
  <2>5. r.got.kind = "data" => r.got.ver <= zone'[r.key]
    BY <1>3, <2>1, <2>3 DEF ClientFits
  <2>6. ClientFits(r, call, zone')
    BY <2>1, <2>4, <2>5 DEF ClientFits
  <2>. QED BY <2>6 DEF r
<1>. QED BY <1>1, <1>2, <1>4, <1>5, <1>6 DEF Inv

LEMMA InvStep == Inv /\ [Next]_vars => Inv'
<1>. SUFFICES ASSUME Inv, [Next]_vars PROVE Inv' OBVIOUS
<1>1. ASSUME NEW p \in Clients,
             \/ \E kind \in {"other", "failed"} : PassThrough(p, kind)
             \/ FailedRecently(p) \/ Select(p)
      PROVE  Inv'
  BY <1>1, SelectStep
<1>2. ASSUME NEW p \in Clients, NEW k \in Keys, Ask(p, k) PROVE Inv'
  BY <1>2, AskStep
<1>3. ASSUME NEW p \in Clients, Resolve(p), ~FailedRecently(p) PROVE Inv'
  BY <1>3, GetStep, GetStaleStep, JoinStep, StartCallStep, WaitStep DEF Resolve
<1>4. ASSUME NEW c \in Calls, CallStep(c) PROVE Inv'
  BY <1>4, ExchangedStep, PutStep, NoteFailureStep, RemoveStep, CloseStep DEF CallStep
<1>5. ASSUME NEW k \in Keys, ZoneChanges(k) PROVE Inv'
  BY <1>5, ZoneChangesStep
<1>6. CASE RecheckOver \/ TimePasses
  BY <1>6, RecheckOverStep, TimePassesStep
<1>7. CASE UNCHANGED vars
  <2>1. UNCHANGED <<store, inflight, call, client, recent, zone>> BY <1>7 DEF vars
  <2>2. TableOK /\ TableOK' BY <2>1 DEF Inv, TableOK
  <2>3. CacheFits' /\ Held' = Held
    BY <2>1, <2>2, CacheKept, ZoneNotBack DEF Inv
  <2>. QED BY <2>1, <2>2, <2>3 DEF Inv
<1>. QED BY <1>1, <1>2, <1>3, <1>4, <1>5, <1>6, <1>7 DEF Next

LEMMA InvInit == Init => Inv
<1>. SUFFICES ASSUME Init PROVE Inv OBVIOUS
<1>1. CacheConsistent /\ byKey = {}
  <2>1. lru = <<>> /\ byKey = {} BY DEF Init, CacheInit
  <2>2. <<>> \in Seq(Entry) /\ Len(<<>>) = 0 /\ DOMAIN <<>> = {} OBVIOUS
  <2>. QED BY <2>1, <2>2, CacheAssumption DEF CacheConsistent, CacheTypeOK, MapIsList
<1>2. CacheFits BY <1>1 DEF CacheFits
<1>3. TableOK
  <2>1. inflight \in [Keys -> Calls \cup {NoCall}] BY DEF Init
  <2>2. zone \in [Keys -> Versions] BY ResolverAssumption DEF Init
  <2>3. recent = FALSE BY DEF Init
  <2>. QED BY <2>1, <2>2, <2>3 DEF TableOK
<1>4. call \in [Calls -> Call] /\ \A c \in Calls : call[c] = NoWork
  BY Records DEF Init
<1>5. client \in [Clients -> Client] /\ \A p \in Clients : client[p] = Idle
  BY Records DEF Init
<1>6. ASSUME NEW c \in Calls PROVE CallFits(c, call[c], inflight, zone, Held)
  <2>1. \A k \in Keys : inflight[k] # c BY Records DEF Init
  <2>. QED BY <1>4, <2>1, Records DEF CallFits, NoWork
<1>7. ClientFits(Idle, call, zone)
  <2>1. NoData("none").kind = "none" /\ NoData("none") \in Gots BY DEF NoData, Gots
  <2>2. /\ Idle.pc = "idle" /\ Idle.stale = NoMsg /\ Idle.call = NoCall
        /\ Idle.got = NoData("none")
    BY DEF Idle, Gone
  <2>. QED BY <2>1, <2>2, Records DEF ClientFits
<1>. QED BY <1>2, <1>3, <1>4, <1>5, <1>6, <1>7 DEF Inv

LEMMA Invariance == Spec => []Inv
BY InvInit, InvStep, PTL DEF Spec

\* For each name there is at most one request at the upstreams, inflight names it
\* until its answer is in the cache, and whoever waits for an answer holds a
\* request that is not over, or its answer (resolver.go:43-52, 99-123).
THEOREM ResolverConsistent == Spec => []Consistent
BY Invariance, InvIsEnough, PTL
-----------------------------------------------------------------------------
(* The resolver is a Forwarder. *)

MemoryOf(held) ==
  [k \in Keys |-> IF k \in DOMAIN held /\ ~Outdated(held[k]) THEN held[k].msg.ver ELSE None]

LEMMA MemoryIs == Memory = MemoryOf(Held) /\ Memory' = MemoryOf(Held')
BY DEF Memory, MemoryOf, Hit, Held, Found, Place

LEMMA MemoryKept ==
  ASSUME UNCHANGED store
  PROVE  Memory' = Memory
BY HeldKept, MemoryIs

\* What is remembered is a version the zone has had.
LEMMA MemoryType ==
  ASSUME Inv, NEW k \in Keys
  PROVE  /\ Memory[k] \in Versions \cup {None}
         /\ zone[k] \in Nat
         /\ Memory[k] <= zone[k]
         /\ Memory[k] # None => k \in byKey /\ Memory[k] = Held[k].msg.ver
<1>1. Memory[k] = IF k \in byKey /\ ~Outdated(Held[k]) THEN Held[k].msg.ver ELSE None
  BY MemoryIs, HeldDomain DEF MemoryOf
<1>2. zone[k] \in Nat BY CacheAssumption DEF Inv, TableOK
<1>3. k \in byKey => Held[k].msg.ver \in Versions /\ Held[k].msg.ver <= zone[k]
  <2>. SUFFICES ASSUME k \in byKey PROVE Held[k].msg.ver \in Versions /\ Held[k].msg.ver <= zone[k]
    OBVIOUS
  <2>1. Found(k) \in Entry BY FoundType DEF Inv, CacheFits
  <2>2. Held[k].msg \in Message BY <2>1 DEF Held, Entry
  <2>. QED BY <2>2, Records DEF Inv, CacheFits
<1>. QED BY <1>1, <1>2, <1>3 DEF None

\* A look into the cache forgets nothing that could still be found.
LEMMA MemoryLooked ==
  ASSUME CacheFits, NEW k \in Keys, Lookup(k)
  PROVE  Memory' = Memory
<1>1. /\ byKey' = IF k \in byKey /\ ~Hit(k) THEN byKey \ {k} ELSE byKey
      /\ \A x \in byKey' : Held'[x] = Held[x]
  BY HeldAfterLookup DEF CacheFits
<1>2. DOMAIN Held = byKey /\ DOMAIN Held' = byKey' BY DEF Held
<1>3. k \in byKey /\ ~Hit(k) => Outdated(Held[k]) BY DEF Hit, Held
<1>4. MemoryOf(Held') = MemoryOf(Held) BY <1>1, <1>2, <1>3 DEF MemoryOf
<1>. QED BY <1>4, MemoryIs

LEMMA SameNames ==
  /\ Forwarded!None = None /\ Forwarded!AnyKey = AnyKey
  /\ \A kind : Forwarded!NoData(kind) = NoData(kind)
  /\ \A m : Forwarded!Data(m.ver) = Data(m)
BY DEF Forwarded!None, None, Forwarded!AnyKey, AnyKey, Forwarded!NoData, NoData,
       Forwarded!Data, Data

LEMMA RequestBecomes ==
  ASSUME Inv, NEW p \in Clients, NEW r, Becomes(p, r)
  PROVE  Requests' = [Requests EXCEPT ![p] = RequestOf(r)]
<1>1. client' = [client EXCEPT ![p] = r] /\ client \in [Clients -> Client]
  BY DEF Inv, Becomes
<1>2. Requests = [q \in Clients |-> RequestOf(client[q])]
  BY DEF Requests
<1>3. Requests' = [q \in Clients |-> RequestOf(client'[q])]
  BY DEF Requests
<1>. QED BY <1>1, <1>2, <1>3

LEMMA RequestIs ==
  ASSUME NEW p \in Clients
  PROVE  /\ Requests[p] = RequestOf(client[p])
         /\ Requests[p].key = client[p].key
         /\ Requests[p].floor = IF client[p].stale = NoMsg THEN None ELSE client[p].stale.ver
         /\ Requests[p].answer = client[p].answer
         /\ client[p].pc \in {"get", "stale"} => Requests[p].pc = "asked"
         /\ client[p].pc \in {"shared", "check", "wait"} => Requests[p].pc = "looked"
         /\ client[p].pc \in {"idle", "done"} => Requests[p].pc = client[p].pc
BY DEF Requests, RequestOf

\* A client that moves without a difference.
LEMMA SameRequest ==
  ASSUME Inv, NEW p \in Clients, NEW r, Becomes(p, r), RequestOf(r) = RequestOf(client[p])
  PROVE  Requests' = Requests
<1>1. Requests' = [Requests EXCEPT ![p] = RequestOf(r)] BY RequestBecomes
<1>2. Requests[p] = RequestOf(client[p]) BY RequestIs
<1>3. Requests = [q \in Clients |-> RequestOf(client[q])] BY DEF Requests
<1>. QED BY <1>1, <1>2, <1>3

LEMMA Finishes ==
  ASSUME Inv, NEW p \in Clients, NEW a, Return(p, a), zone' = zone, Memory' = Memory
  PROVE  Forwarded!Finish(p, a)
<1>1. Requests' = [Requests EXCEPT ![p] = RequestOf(Gone(a))]
  BY RequestBecomes DEF Return
<1>2. RequestOf(Gone(a)) = [pc |-> "done", key |-> AnyKey, floor |-> None, answer |-> a]
  BY DEF RequestOf, Gone
<1>. QED BY <1>1, <1>2, SameNames DEF Forwarded!Finish

\* The abstract step or stutter.
ForwarderStep == Forwarded!Next \/ UNCHANGED <<zone, Memory, Requests>>

\* An answer from the cache as it was when the client looked is an Answer.
LEMMA StaleIsAnswer ==
  ASSUME Inv, NEW p \in Clients, client[p].pc \in {"check", "wait"}, client[p].stale # NoMsg,
         Return(p, Data(client[p].stale)), UNCHANGED <<store, zone>>
  PROVE  Forwarded!Next
<1>. DEFINE v == client[p].stale.ver
<1>1. v \in Versions /\ v \in Nat BY ClientKnown, Records
<1>2. v <= zone[client[p].key] BY ClientKnown DEF ClientFits
<1>3. /\ Requests[p].pc = "looked" /\ Requests[p].floor = v
      /\ Requests[p].key = client[p].key
  BY RequestIs
<1>4. Forwarded!Finish(p, Data(client[p].stale))
  BY MemoryKept, Finishes
<1>5. Forwarded!Finish(p, Forwarded!Data(v))
  BY <1>4, SameNames
<1>6. Forwarded!Answer(p, v)
  BY <1>1, <1>2, <1>3, <1>5 DEF Forwarded!Answer
<1>. QED BY <1>1, <1>6 DEF Forwarded!Next

LEMMA SelectForwards ==
  ASSUME Inv, NEW p \in Clients, FailedRecently(p) \/ Select(p)
  PROVE  Forwarded!Next
<1>. DEFINE r == client[p]
<1>1. r.pc \in {"check", "wait"} /\ UNCHANGED <<store, zone>>
  BY DEF FailedRecently, Select, Answered, Slow, CtxDone, At
<1>2. Memory' = Memory BY <1>1, MemoryKept
<1>3. ClientFits(r, call, zone) BY ClientKnown
<1>4. Requests[p].pc = "looked" /\ Requests[p].key = r.key
      /\ Requests[p].floor = IF r.stale = NoMsg THEN None ELSE r.stale.ver
  BY <1>1, RequestIs
<1>5. CASE r.stale # NoMsg /\ Return(p, Data(r.stale))
  BY <1>1, <1>5, StaleIsAnswer
<1>6. CASE r.stale = NoMsg /\ Return(p, NoData("failed"))
  <2>1. Forwarded!Finish(p, Forwarded!NoData("failed"))
    BY <1>1, <1>2, <1>6, Finishes, SameNames
  <2>2. Forwarded!Fail(p) BY <1>4, <1>6, <2>1, SameNames DEF Forwarded!Fail
  <2>. QED BY <2>2 DEF Forwarded!Next
<1>7. CASE r.got.kind # "none" /\ ~(r.stale # NoMsg /\ r.got.kind = "failed") /\ Return(p, r.got)
  <2>. DEFINE a == r.got
  <2>1. a \in Gots BY <1>3 DEF ClientFits
  <2>2. Forwarded!Finish(p, a) BY <1>1, <1>2, <1>7, Finishes
  <2>3. CASE a = NoData("other")
    <3>1. Forwarded!Other(p) BY <1>4, <2>2, <2>3, SameNames DEF Forwarded!Other
    <3>. QED BY <3>1 DEF Forwarded!Next
  <2>4. CASE a = NoData("failed")
    <3>1. r.stale = NoMsg BY <1>7, <2>4 DEF NoData
    <3>2. Forwarded!Finish(p, Forwarded!NoData("failed")) BY <2>2, <2>4, SameNames
    <3>3. Forwarded!Fail(p) BY <1>4, <3>1, <3>2, SameNames DEF Forwarded!Fail
    <3>. QED BY <3>3 DEF Forwarded!Next
  <2>5. CASE \E v \in Versions : a = [kind |-> "data", ver |-> v]
    <3>1. PICK v \in Versions : a = [kind |-> "data", ver |-> v] BY <2>5
    <3>2. v \in Nat BY CacheAssumption
    <3>3. v <= zone[r.key] BY <1>3, <3>1 DEF ClientFits
    <3>4. r.stale # NoMsg => r.stale.ver <= v BY <1>3, <3>1 DEF ClientFits
    <3>5. Requests[p].floor <= v BY <1>4, <3>2, <3>4 DEF None
    <3>6. Forwarded!Finish(p, Forwarded!Data(v)) BY <2>2, <3>1 DEF Forwarded!Data
    <3>7. Forwarded!Answer(p, v) BY <1>4, <3>3, <3>5, <3>6 DEF Forwarded!Answer
    <3>. QED BY <3>7 DEF Forwarded!Next
  <2>6. a # NoData("none") BY <1>7 DEF NoData
  <2>. QED BY <2>1, <2>3, <2>4, <2>5, <2>6 DEF Gots
<1>. QED BY <1>5, <1>6, <1>7 DEF FailedRecently, Select, Answered, Slow, CtxDone

LEMMA AskForwards ==
  ASSUME Inv, NEW p \in Clients,
         (\E kind \in {"other", "failed"} : PassThrough(p, kind)) \/ \E k \in Keys : Ask(p, k)
  PROVE  Forwarded!Next
<1>1. client[p].pc \in {"idle", "done"} /\ UNCHANGED <<store, zone>>
  BY DEF PassThrough, Ask
<1>2. Memory' = Memory /\ Forwarded!Between(p)
  BY <1>1, MemoryKept, RequestIs DEF Forwarded!Between
<1>3. ASSUME NEW kind \in {"other", "failed"}, PassThrough(p, kind) PROVE Forwarded!Next
  <2>1. Return(p, NoData(kind)) BY <1>3 DEF PassThrough, Return
  <2>2. Forwarded!Finish(p, Forwarded!NoData(kind)) BY <1>1, <1>2, <2>1, Finishes, SameNames
  <2>3. Forwarded!PassThrough(p) BY <1>2, <2>2 DEF Forwarded!PassThrough
  <2>. QED BY <2>3 DEF Forwarded!Next
<1>4. ASSUME NEW k \in Keys, Ask(p, k) PROVE Forwarded!Next
  <2>. DEFINE r == [Idle EXCEPT !.pc = "get", !.key = k]
  <2>1. Requests' = [Requests EXCEPT ![p] = RequestOf(r)] BY <1>4, RequestBecomes DEF Ask
  <2>2. r.pc = "get" /\ r.key = k /\ r.stale = NoMsg /\ r.answer = NoData("none")
    <3>1. Idle \in Client /\ Idle.stale = NoMsg /\ Idle.answer = NoData("none")
      BY Records DEF Idle, Gone
    <3>. QED BY <3>1 DEF Client
  <2>. HIDE DEF r
  <2>3. RequestOf(r) = [pc |-> "asked", key |-> k, floor |-> None, answer |-> NoData("none")]
    BY <2>2 DEF RequestOf
  <2>4. Forwarded!Ask(p, k) BY <1>1, <1>2, <2>1, <2>3, SameNames DEF Forwarded!Ask
  <2>. QED BY <2>4 DEF Forwarded!Next
<1>. QED BY <1>3, <1>4

\* Get: the answer is remembered, or nothing has happened yet.
LEMMA GetForwards ==
  ASSUME Inv, NEW p \in Clients, Get(p)
  PROVE  ForwarderStep
<1>. DEFINE k == client[p].key
            r == [client[p] EXCEPT !.pc = "stale"]
<1>1. k \in Keys /\ Lookup(k) /\ zone' = zone /\ client[p].pc = "get" /\ client[p] \in Client
  BY ClientKnown DEF Get, At
<1>2. Memory' = Memory BY <1>1, MemoryLooked DEF Inv
<1>3. CASE FreshHit(k) /\ Return(p, Data(Found(k).msg))
  <2>1. Memory[k] = Found(k).msg.ver BY <1>1, <1>3 DEF Memory, FreshHit
  <2>2. Found(k).msg.ver # None
    <3>1. Found(k) \in Entry BY <1>3, FoundType DEF FreshHit, Hit, Inv, CacheFits
    <3>. QED BY <3>1, Records DEF Entry
  <2>3. Forwarded!Finish(p, Forwarded!Data(Memory[k]))
    BY <1>1, <1>2, <1>3, <2>1, Finishes, SameNames
  <2>4. Requests[p].pc = "asked" /\ Requests[p].key = k BY <1>1, RequestIs
  <2>5. Forwarded!Remember(p)
    BY <2>1, <2>2, <2>3, <2>4, SameNames DEF Forwarded!Remember
  <2>. QED BY <2>5 DEF Forwarded!Next, ForwarderStep
<1>4. CASE Becomes(p, r)
  <2>1. RequestOf(r) = RequestOf(client[p]) BY <1>1 DEF RequestOf, Client
  <2>2. Requests' = Requests BY <1>4, <2>1, SameRequest
  <2>. QED BY <1>1, <1>2, <2>2 DEF ForwarderStep
<1>. QED BY <1>3, <1>4 DEF Get

LEMMA GetStaleForwards ==
  ASSUME Inv, NEW p \in Clients, GetStale(p)
  PROVE  Forwarded!Next
<1>. DEFINE k == client[p].key
            m == IF Hit(k) THEN Found(k).msg ELSE NoMsg
            r == [client[p] EXCEPT !.pc = "shared", !.stale = m]
<1>1. /\ k \in Keys /\ Lookup(k) /\ zone' = zone /\ client[p].pc = "stale" /\ client[p] \in Client
      /\ client[p].stale = NoMsg /\ Becomes(p, r)
  BY ClientKnown DEF GetStale, At, ClientFits
<1>2. Memory' = Memory BY <1>1, MemoryLooked DEF Inv
<1>3. Memory[k] = IF m = NoMsg THEN None ELSE m.ver
  <2>1. Hit(k) => Found(k).msg # NoMsg
    <3>. SUFFICES ASSUME Hit(k) PROVE Found(k).msg # NoMsg OBVIOUS
    <3>1. Found(k) \in Entry BY FoundType DEF Hit, Inv, CacheFits
    <3>. QED BY <3>1, Records DEF Entry
  <2>2. Memory[k] = IF Hit(k) THEN Found(k).msg.ver ELSE None BY <1>1 DEF Memory
  <2>. QED BY <2>1, <2>2
<1>. HIDE DEF m
<1>4. Requests' = [Requests EXCEPT ![p] = RequestOf(r)] BY <1>1, RequestBecomes
<1>5. Requests[p] = RequestOf(client[p]) /\ Requests[p].pc = "asked" /\ Requests[p].key = k
  BY <1>1, RequestIs
<1>6. RequestOf(client[p]) = [pc |-> "asked", key |-> k, floor |-> None, answer |-> client[p].answer]
  BY <1>1 DEF RequestOf
<1>7. RequestOf(r) = [pc |-> "looked", key |-> k, floor |-> Memory[k], answer |-> client[p].answer]
  <2>1. /\ r.pc = "shared" /\ r.key = k /\ r.stale = m /\ r.answer = client[p].answer
    BY <1>1 DEF Client
  <2>. QED BY <1>3, <2>1 DEF RequestOf
<1>8. RequestOf(r) = [RequestOf(client[p]) EXCEPT !.pc = "looked", !.floor = Memory[k]]
  <2>. DEFINE asked == [pc |-> "asked", key |-> k, floor |-> None, answer |-> client[p].answer]
              v == Memory[k]
              a == client[p].answer
  <2>. HIDE DEF v, a, k
  <2>1. [asked EXCEPT !.pc = "looked", !.floor = v]
          = [pc |-> "looked", key |-> k, floor |-> v, answer |-> a]
    <3>. DEFINE looked == [asked EXCEPT !.pc = "looked", !.floor = v]
    <3>1. looked = [i \in {"pc", "key", "floor", "answer"} |->
                      IF i = "floor" THEN v ELSE IF i = "pc" THEN "looked" ELSE asked[i]]
      OBVIOUS
    <3>. QED BY <3>1 DEF a
  <2>. QED BY <1>6, <1>7, <2>1 DEF v, a
<1>9. Requests' = [Requests EXCEPT ![p].pc = "looked", ![p].floor = Memory[Requests[p].key]]
  BY <1>4, <1>5, <1>8
<1>10. Forwarded!Look(p)
  BY <1>1, <1>2, <1>5, <1>9 DEF Forwarded!Look
<1>. QED BY <1>10 DEF Forwarded!Next

\* shared, the wait and the select's beginning are invisible.
LEMMA JoinForwards ==
  ASSUME Inv, NEW p \in Clients, Join(p) \/ Wait(p) \/ \E c \in Calls : StartCall(p, c)
  PROVE  UNCHANGED <<zone, Memory, Requests>>
<1>1. UNCHANGED <<store, zone>> BY DEF Join, Wait, StartCall
<1>2. PICK r : /\ Becomes(p, r) /\ r.key = client[p].key /\ r.stale = client[p].stale
               /\ r.answer = client[p].answer
               /\ r.pc \in {"check", "wait"} /\ client[p].pc \in {"shared", "check", "wait"}
  <2>1. client[p] \in Client BY ClientKnown
  <2>. DEFINE wait == [client[p] EXCEPT !.pc = "wait"]
              check(c) == [client[p] EXCEPT !.pc = "check", !.call = c]
  <2>2. /\ wait.key = client[p].key /\ wait.stale = client[p].stale
        /\ wait.answer = client[p].answer /\ wait.pc = "wait"
    BY <2>1 DEF Client
  <2>3. ASSUME NEW c PROVE /\ check(c).key = client[p].key /\ check(c).stale = client[p].stale
                           /\ check(c).answer = client[p].answer /\ check(c).pc = "check"
    BY <2>1 DEF Client
  <2>. HIDE DEF wait, check
  <2>4. CASE Wait(p)
    <3>1. Becomes(p, wait) /\ client[p].pc = "check" BY <2>4 DEF Wait, At, wait
    <3>. QED BY <2>2, <3>1
  <2>5. CASE Join(p) \/ \E c \in Calls : StartCall(p, c)
    <3>1. PICK c : Becomes(p, check(c)) /\ client[p].pc = "shared"
      BY <2>5 DEF Join, StartCall, At, check
    <3>. QED BY <2>3, <3>1
  <2>. QED BY <2>4, <2>5
<1>3. RequestOf(r) = RequestOf(client[p]) BY <1>2 DEF RequestOf
<1>. QED BY <1>1, <1>2, <1>3, MemoryKept, SameRequest

\* Put of data is what the memory learns; what no longer fits is lost.
LEMMA PutForwards ==
  ASSUME Inv, NEW c \in Calls, Put(c)
  PROVE  ForwarderStep
<1>. DEFINE k == call[c].key
            m == call[c].reply.msg
            v == m.ver
<1>1. /\ CallFits(c, call[c], inflight, zone, Held)
      /\ k \in Keys /\ m \in Message /\ v \in Versions /\ v \in Nat
  BY CallKnown, Records DEF Reply
<1>2. UNCHANGED <<client, zone>> /\ call[c].pc = "store" BY DEF Put, Goes
<1>3. Requests' = Requests BY <1>2 DEF Requests
<1>4. CASE call[c].reply.rcode = "good"
  <2>1. Store(k, m) BY <1>4 DEF Put
  <2>2. /\ k \in byKey' /\ byKey' \subseteq byKey \cup {k}
        /\ Held'[k] = [key |-> k, msg |-> m, ttl |-> RespTtl(m), age |-> 0]
        /\ \A x \in byKey' \ {k} : Held'[x] = Held[x]
    BY <1>1, <2>1, HeldAfterStore DEF Inv, CacheFits
  <2>3. DOMAIN Held = byKey /\ DOMAIN Held' = byKey' BY DEF Held
  <2>4. Held'[k].msg.ver = v BY <2>2
  <2>. DEFINE lost == {x \in Keys : Memory'[x] = None}
  <2>5. ASSUME NEW x \in Keys
        PROVE  Memory'[x] = IF x \in lost THEN None ELSE IF x = k THEN v ELSE Memory[x]
    <3>1. /\ Memory'[x] = IF x \in byKey' /\ ~Outdated(Held'[x]) THEN Held'[x].msg.ver ELSE None
          /\ Memory[x] = IF x \in byKey /\ ~Outdated(Held[x]) THEN Held[x].msg.ver ELSE None
      BY <2>3, MemoryIs DEF MemoryOf
    <3>2. CASE x \notin lost
      <4>1. x \in byKey' /\ ~Outdated(Held'[x]) /\ Memory'[x] = Held'[x].msg.ver BY <3>1, <3>2
      <4>. QED BY <2>2, <2>4, <3>1, <3>2, <4>1
    <3>. QED BY <3>2
  <2>6. Memory' = [x \in Keys |-> IF x \in lost THEN None ELSE IF x = k THEN v ELSE Memory[x]]
    <3>1. Memory' = MemoryOf(Held') BY MemoryIs
    <3>2. Memory' = [x \in Keys |-> Memory'[x]] BY <3>1 DEF MemoryOf
    <3>. HIDE DEF lost, v
    <3>. QED BY <2>5, <3>2
  <2>7. Memory[k] <= v
    <3>1. k \in byKey => Held[k].msg.ver <= v
      BY <1>1, <1>2, <1>4, HeldDomain DEF CallFits
    <3>. QED BY <1>1, <3>1, MemoryType DEF None
  <2>8. v <= zone[k] BY <1>1, <1>2, <1>4 DEF CallFits
  <2>9. lost \in SUBSET Keys OBVIOUS
  <2>10. Forwarded!Learn(k, v, lost)
    BY <1>2, <1>3, <2>6, <2>7, <2>8, SameNames DEF Forwarded!Learn
  <2>. QED BY <1>1, <2>9, <2>10 DEF Forwarded!Next, ForwarderStep
<1>5. CASE UNCHANGED store
  BY <1>2, <1>3, <1>5, MemoryKept DEF ForwarderStep
<1>. QED BY <1>4, <1>5 DEF Put

\* The other steps of a call are invisible.
LEMMA CallForwards ==
  ASSUME Inv, NEW c \in Calls, CallStep(c)
  PROVE  ForwarderStep
<1>1. ASSUME NEW rcode, NEW t, Exchanged(c, rcode, t) PROVE ForwarderStep
  BY <1>1, MemoryKept DEF Exchanged, Requests, ForwarderStep
<1>2. CASE NoteFailure(c) \/ Remove(c)
  BY <1>2, MemoryKept DEF NoteFailure, Remove, Requests, ForwarderStep
<1>3. CASE Close(c)
  <2>1. UNCHANGED <<store, zone>> BY <1>3 DEF Close
  <2>2. Memory' = Memory BY <2>1, MemoryKept
  <2>. DEFINE given(p) == [client[p] EXCEPT !.call = NoCall, !.got = Served(call[c].reply)]
  <2>3. client' = [p \in Clients |-> IF client[p].call = c THEN given(p) ELSE client[p]]
    BY <1>3 DEF Close
  <2>4. ASSUME NEW p \in Clients PROVE RequestOf(client'[p]) = RequestOf(client[p])
    <3>1. client[p] \in Client BY ClientKnown
    <3>2. RequestOf(given(p)) = RequestOf(client[p])
      <4>1. /\ given(p).pc = client[p].pc /\ given(p).key = client[p].key
            /\ given(p).stale = client[p].stale /\ given(p).answer = client[p].answer
        BY <3>1 DEF Client
      <4>. HIDE DEF given
      <4>. QED BY <4>1 DEF RequestOf
    <3>. HIDE DEF given
    <3>. QED BY <2>3, <3>2
  <2>5. Requests' = [p \in Clients |-> RequestOf(client'[p])] BY DEF Requests
  <2>6. Requests' = Requests BY <2>4, <2>5 DEF Requests
  <2>. QED BY <2>1, <2>2, <2>6 DEF ForwarderStep
<1>. QED BY <1>1, <1>2, <1>3, PutForwards DEF CallStep

\* Time makes the memory forget.
LEMMA TimeForwards ==
  ASSUME Inv, TimePasses
  PROVE  Forwarded!Next
<1>1. Age /\ UNCHANGED <<client, zone>> BY DEF TimePasses
<1>2. /\ byKey' = byKey
      /\ \A x \in byKey : Held'[x].msg = Held[x].msg /\ (Outdated(Held[x]) => Outdated(Held'[x]))
  BY <1>1, HeldAfterAge DEF Inv, CacheFits
<1>3. DOMAIN Held = byKey /\ DOMAIN Held' = byKey' BY DEF Held
<1>. DEFINE lost == {x \in Keys : Memory'[x] = None}
<1>4. ASSUME NEW x \in Keys PROVE Memory'[x] = IF x \in lost THEN None ELSE Memory[x]
  <2>1. /\ Memory'[x] = IF x \in byKey' /\ ~Outdated(Held'[x]) THEN Held'[x].msg.ver ELSE None
        /\ Memory[x] = IF x \in byKey /\ ~Outdated(Held[x]) THEN Held[x].msg.ver ELSE None
    BY <1>3, MemoryIs DEF MemoryOf
  <2>2. CASE x \notin lost
    <3>1. x \in byKey /\ ~Outdated(Held'[x]) /\ Memory'[x] = Held'[x].msg.ver
      BY <1>2, <2>1, <2>2
    <3>. QED BY <1>2, <2>1, <2>2, <3>1
  <2>. QED BY <2>2
<1>5. Memory' = [x \in Keys |-> IF x \in lost THEN None ELSE Memory[x]]
  <2>1. Memory' = MemoryOf(Held') BY MemoryIs
  <2>2. Memory' = [x \in Keys |-> Memory'[x]] BY <2>1 DEF MemoryOf
  <2>. HIDE DEF lost
  <2>. QED BY <1>4, <2>2
<1>6. Requests' = Requests BY <1>1 DEF Requests
<1>7. Forwarded!Forget(lost)
  BY <1>1, <1>5, <1>6, SameNames DEF Forwarded!Forget
<1>8. lost \in SUBSET Keys OBVIOUS
<1>. QED BY <1>7, <1>8 DEF Forwarded!Next

LEMMA StepForwards == Inv /\ [Next]_vars => [Forwarded!Next]_<<zone, Memory, Requests>>
<1>. SUFFICES ASSUME Inv, [Next]_vars PROVE ForwarderStep
  BY DEF ForwarderStep
<1>1. ASSUME NEW p \in Clients,
             \/ \E kind \in {"other", "failed"} : PassThrough(p, kind)
             \/ \E k \in Keys : Ask(p, k)
      PROVE  ForwarderStep
  BY <1>1, AskForwards DEF ForwarderStep
<1>2. ASSUME NEW p \in Clients, Resolve(p) \/ Select(p) PROVE ForwarderStep
  BY <1>2, GetForwards, GetStaleForwards, JoinForwards, SelectForwards
     DEF Resolve, ForwarderStep
<1>3. ASSUME NEW c \in Calls, CallStep(c) PROVE ForwarderStep
  BY <1>3, CallForwards
<1>4. ASSUME NEW k \in Keys, ZoneChanges(k) PROVE ForwarderStep
  <2>1. zone[k] \in Nat /\ zone \in [Keys -> Versions] BY MemoryType DEF Inv, TableOK
  <2>. DEFINE v == zone[k] + 1
  <2>2. v \in Versions /\ zone[k] < v /\ zone' = [zone EXCEPT ![k] = v]
    BY <1>4, <2>1 DEF ZoneChanges
  <2>3. Memory' = Memory /\ Requests' = Requests
    BY <1>4, MemoryKept DEF ZoneChanges, Requests
  <2>4. Forwarded!ZoneChanges(k) BY <2>2, <2>3 DEF Forwarded!ZoneChanges
  <2>. QED BY <2>4 DEF Forwarded!Next, ForwarderStep
<1>5. CASE RecheckOver
  BY <1>5, MemoryKept DEF RecheckOver, Requests, ForwarderStep
<1>6. CASE TimePasses
  BY <1>6, TimeForwards DEF ForwarderStep
<1>7. CASE UNCHANGED vars
  BY <1>7, MemoryKept DEF vars, Requests, ForwarderStep
<1>. QED BY <1>1, <1>2, <1>3, <1>4, <1>5, <1>6, <1>7 DEF Next

LEMMA InitForwards == Init => Forwarded!Init
<1>. SUFFICES ASSUME Init PROVE Forwarded!Init OBVIOUS
<1>1. zone \in [Keys -> Versions] BY ResolverAssumption DEF Init
<1>2. Memory = [k \in Keys |-> None] BY DEF Init, CacheInit, Memory, Hit
<1>3. client = [p \in Clients |-> Idle] BY DEF Init
<1>4. RequestOf(Idle) = [pc |-> "idle", key |-> AnyKey, floor |-> None, answer |-> NoData("none")]
  <2>1. /\ Idle.pc = "idle" /\ Idle.key = AnyKey /\ Idle.stale = NoMsg
        /\ Idle.answer = NoData("none")
    BY DEF Idle, Gone
  <2>. QED BY <2>1 DEF RequestOf
<1>5. Requests = [p \in Clients |-> [pc |-> "idle", key |-> AnyKey, floor |-> None,
                                     answer |-> NoData("none")]]
  BY <1>3, <1>4 DEF Requests
<1>. QED BY <1>1, <1>2, <1>5, SameNames DEF Forwarded!Init

\* Whatever way out of the select is taken: a client for which the cache held
\* anything usable never gets an error or SERVFAIL, no answer is older than what
\* the cache held when the client looked, and the cache only goes forward, because
\* Put comes before the call leaves inflight (resolver.go:54-123).
THEOREM ResolverForwards == Spec => Forwards
<1>1. Forwarded!vars = <<zone, Memory, Requests>> BY DEF Forwarded!vars
<1>2. Inv /\ [Next]_vars => [Forwarded!Next]_Forwarded!vars
  BY <1>1, StepForwards DEF Forwarded!vars
<1>. QED BY <1>2, InitForwards, Invariance, PTL DEF Spec, Forwards, Forwarded!Spec
=============================================================================
