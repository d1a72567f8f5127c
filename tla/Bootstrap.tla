----------------------------- MODULE Bootstrap -----------------------------
(***************************************************************************)
(* PlainDNS of internal/upstream/bootstrap.go: the addresses of the name   *)
(* of an upstream, asked of plain DNS servers over UDP and TCP at once and *)
(* kept.  Addresses past their TTL are still given, and refreshed in the   *)
(* background.  The maps are kept per name and this is one name.           *)
(*                                                                         *)
(* The world is stormy, when everything may fail, until it is calm for     *)
(* good: then one server answers, and only over TCP (a provider that cuts  *)
(* DNS over UDP), the others are silent, and the zone no longer changes.   *)
(***************************************************************************)
EXTENDS Naturals, FiniteSets, Sequences

CONSTANTS
  Servers,      \* b.Servers
  Good,         \* the one that answers in calm
  Callers,      \* calls of Resolve
  Refreshers,   \* goroutines of refreshInBackground
  Zones         \* lists of addresses the name may have

ASSUME BootstrapAssumption ==
  /\ IsFiniteSet(Servers) /\ Good \in Servers
  /\ Callers \cap Refreshers = {}
  /\ <<>> \notin Zones

VARIABLES
  kept,      \* cache[host]: unknown, fresh or stale
  ips,       \* and the addresses in it
  marked,    \* refreshing[host]
  query,     \* the query of each caller and of each refresher
  lookup,    \* where each call of Resolve is
  zone,      \* the addresses the name has now
  calm

bootVars == <<kept, ips, marked, query, lookup, zone, calm>>

Askers == Callers \cup Refreshers
Attempts == Servers \X {"udp", "tcp"}

\* A goroutine of query with the channel its attempts send to.  An attempt waits
\* (TCP only), asks, or is not there any more.
Query ==
  [pc : {"idle", "asking", "store", "unmark"},
   over : BOOLEAN,                                 \* ctx is done
   att : [Attempts -> {"none", "waits", "asks"}],
   out : Seq(Zones \cup {<<>>}),                   \* no addresses: a failure
   left : 0..Cardinality(Attempts),                \* results not yet received
   found : Zones \cup {<<>>}]

Lookup == [pc : {"idle", "look", "refresh", "query", "done"}, ips : Zones \cup {<<>>}]

BootTypeOK ==
  /\ kept \in {"unknown", "fresh", "stale"}
  /\ ips \in Zones \cup {<<>>}
  /\ marked \in BOOLEAN
  /\ query \in [Askers -> Query]
  /\ lookup \in [Callers -> Lookup]
  /\ zone \in Zones
  /\ calm \in BOOLEAN

NoQuery ==
  [pc |-> "idle", over |-> FALSE, att |-> [a \in Attempts |-> "none"], out |-> <<>>,
   left |-> 0, found |-> <<>>]

\* Mutant: one result of every server is waited for.
StartedOnce ==
  [NoQuery EXCEPT !.pc = "asking", !.left = Cardinality(Servers),
     !.att = [a \in Attempts |-> IF a[2] = "udp" THEN "asks" ELSE "waits"]]

\* query starts every server's goroutines: UDP at once, TCP a little later.
Started ==
  [NoQuery EXCEPT !.pc = "asking", !.left = Cardinality(Attempts),
     !.att = [a \in Attempts |-> IF a[2] = "udp" THEN "asks" ELSE "waits"]]

BootInit ==
  /\ kept = "unknown" /\ ips = <<>> /\ marked = FALSE
  /\ query = [q \in Askers |-> NoQuery]
  /\ lookup = [c \in Callers |-> [pc |-> "idle", ips |-> <<>>]]
  /\ zone \in Zones
  /\ calm = FALSE

\* Nothing of a query runs any more; its channel is garbage then.
Ended(r) == \A a \in Attempts : r.att[a] = "none"
Over(r) == r.pc = "idle" /\ Ended(r)
Becomes(q, r) == query' = [query EXCEPT ![q] = IF Over(r) THEN NoQuery ELSE r]

-----------------------------------------------------------------------------
(* Resolve. *)

Looks(c, from, to, list) ==
  /\ lookup[c].pc = from
  /\ lookup' = [lookup EXCEPT ![c] = [pc |-> to, ips |-> list]]

BeginLookup(c) ==
  /\ Looks(c, "idle", "look", <<>>)
  /\ UNCHANGED <<kept, ips, marked, query, zone, calm>>

LookFresh(c) ==
  /\ kept = "fresh" /\ Looks(c, "look", "done", ips)
  /\ UNCHANGED <<kept, ips, marked, query, zone, calm>>

LookStale(c) ==
  /\ kept = "stale" /\ Looks(c, "look", "refresh", ips)
  /\ UNCHANGED <<kept, ips, marked, query, zone, calm>>

LookUnknown(c) ==
  /\ kept = "unknown" /\ Looks(c, "look", "query", <<>>)
  /\ Over(query[c]) /\ Becomes(c, Started)
  /\ UNCHANGED <<kept, ips, marked, zone, calm>>

\* refreshInBackground: one refresh at a time, in a goroutine of its own.
AlreadyRefreshing(c) ==
  /\ marked /\ Looks(c, "refresh", "done", lookup[c].ips)
  /\ UNCHANGED <<kept, ips, marked, query, zone, calm>>

Refresh(c) ==
  /\ ~marked /\ Looks(c, "refresh", "done", lookup[c].ips)
  /\ \E r \in Refreshers : Over(query[r])
  /\ marked' = TRUE
  /\ Becomes(CHOOSE r \in Refreshers : Over(query[r]), Started)
  /\ UNCHANGED <<kept, ips, zone, calm>>

-----------------------------------------------------------------------------
(* query and askServer. *)

Room == Cardinality(Attempts)

\* askServer goes on to TCP: UDP has failed, tcpDelay has passed, or ctx is done.
TcpStarts(q, s) ==
  /\ query[q].att[<<s, "tcp">>] = "waits"
  /\ Becomes(q, [query[q] EXCEPT !.att[<<s, "tcp">>] = "asks"])
  /\ UNCHANGED <<kept, ips, marked, lookup, zone, calm>>

\* Mutant: out has no buffer, and takes a result only while query reads.
SendsUnbuffered(q, a, result) ==
  /\ query[q].att[a] = "asks" /\ query[q].pc = "asking"
  /\ Becomes(q, [query[q] EXCEPT !.att[a] = "none", !.out = Append(@, result)])
  /\ UNCHANGED <<kept, ips, marked, lookup, zone, calm>>

\* An exchange has ended; its goroutine puts the result into out and ends.
Sends(q, a, result) ==
  /\ query[q].att[a] = "asks" /\ Len(query[q].out) < Room
  /\ Becomes(q, [query[q] EXCEPT !.att[a] = "none", !.out = Append(@, result)])
  /\ UNCHANGED <<kept, ips, marked, lookup, zone, calm>>

\* Addresses, those the name has at this moment ...
Answers(q, a) ==
  /\ query[q].pc = "asking" /\ (calm => a = <<Good, "tcp">>)
  /\ Sends(q, a, zone)

\* ... or none: an error, another rcode, an answer without A records, ctx.  In
\* calm a server that is silent is given up only with ctx.
Fails(q, a) == (calm => query[q].over) /\ Sends(q, a, <<>>)

\* ctx's time is over.  In calm the answer that is coming comes before.
TimesOut(q) ==
  /\ query[q].pc = "asking" /\ ~query[q].over
  /\ calm => query[q].att[<<Good, "tcp">>] = "none"
  /\ Becomes(q, [query[q] EXCEPT !.over = TRUE])
  /\ UNCHANGED <<kept, ips, marked, lookup, zone, calm>>

Reads(q) == query[q].pc = "asking" /\ query[q].out # <<>>

\* query receives addresses and returns, which cancels the other attempts;
Receives(q) ==
  /\ Reads(q) /\ Head(query[q].out) # <<>>
  /\ Becomes(q, [query[q] EXCEPT !.pc = "store", !.over = TRUE, !.left = 0,
                                 !.out = Tail(@), !.found = Head(query[q].out)])
  /\ UNCHANGED <<kept, ips, marked, lookup, zone, calm>>

\* a failure means nothing as long as there is more to come,
ReceivesFailure(q) ==
  /\ Reads(q) /\ Head(query[q].out) = <<>> /\ query[q].left > 1
  /\ Becomes(q, [query[q] EXCEPT !.out = Tail(@), !.left = @ - 1])
  /\ UNCHANGED <<kept, ips, marked, lookup, zone, calm>>

\* Mutant: a refresh that fails returns before it takes its mark away.
NoneAnsweredMarked(q) ==
  /\ Reads(q) /\ Head(query[q].out) = <<>> /\ query[q].left = 1
  /\ Becomes(q, NoQuery)
  /\ IF q \in Callers THEN Looks(q, "query", "done", <<>>) ELSE UNCHANGED lookup
  /\ UNCHANGED <<kept, ips, marked, zone, calm>>

\* and the last one ends the query.
NoneAnswered(q) ==
  /\ Reads(q) /\ Head(query[q].out) = <<>> /\ query[q].left = 1
  /\ Becomes(q, [NoQuery EXCEPT !.pc = IF q \in Refreshers THEN "unmark" ELSE "idle"])
  /\ IF q \in Callers THEN Looks(q, "query", "done", <<>>) ELSE UNCHANGED lookup
  /\ UNCHANGED <<kept, ips, marked, zone, calm>>

\* store, in the caller's goroutine or in the refresher's.
Store(q) ==
  /\ query[q].pc = "store"
  /\ kept' = "fresh" /\ ips' = query[q].found
  /\ Becomes(q, [query[q] EXCEPT !.pc = IF q \in Refreshers THEN "unmark" ELSE "idle",
                                 !.found = <<>>])
  /\ IF q \in Callers THEN Looks(q, "query", "done", query[q].found) ELSE UNCHANGED lookup
  /\ UNCHANGED <<marked, zone, calm>>

Unmark(q) ==
  /\ query[q].pc = "unmark"
  /\ marked' = FALSE
  /\ Becomes(q, [query[q] EXCEPT !.pc = "idle"])
  /\ UNCHANGED <<kept, ips, lookup, zone, calm>>

-----------------------------------------------------------------------------
(* The world. *)

\* minBootstrapTTL is far longer than an attempt lasts.
Expire ==
  /\ kept = "fresh" /\ \A q \in Askers : query[q].pc = "idle" => Over(query[q])
  /\ kept' = "stale"
  /\ UNCHANGED <<ips, marked, query, lookup, zone, calm>>

ZoneChanges ==
  /\ ~calm
  /\ zone' \in Zones \ {zone}
  /\ UNCHANGED <<kept, ips, marked, query, lookup, calm>>

-----------------------------------------------------------------------------
AskerStep(q) ==
  \/ \E s \in Servers : TcpStarts(q, s)
  \/ \E a \in Attempts : Answers(q, a) \/ Fails(q, a)
  \/ TimesOut(q) \/ Receives(q) \/ ReceivesFailure(q) \/ NoneAnswered(q)
  \/ Store(q) \/ Unmark(q)

CallerStep(c) ==
  LookFresh(c) \/ LookStale(c) \/ LookUnknown(c) \/ AlreadyRefreshing(c) \/ Refresh(c)
=============================================================================
