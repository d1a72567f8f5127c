------------------------------ MODULE SmartDNS ------------------------------
(***************************************************************************)
(* The local overrides (internal/smartdns/smartdns.go): a table of         *)
(* protected names answered from a hosts file, published atomically and    *)
(* reloaded on SIGHUP (reloadHosts of cmd/doqd/main.go) while queries are  *)
(* in flight.  A table is the set of its names; the parsing of the file    *)
(* only matters in that it may fail.                                       *)
(***************************************************************************)
EXTENDS Naturals, FiniteSets

CONSTANTS
  Clients,
  Names,
  Tables,    \* the name sets a hosts file may hold, SUBSET Names
  NoName,
  Broken,    \* a file that does not parse
  Replies    \* what the resolver below may answer

VARIABLES
  table,     \* r.table
  file,      \* what the path holds now
  pending,   \* the signal channel, of capacity 1, holds a SIGHUP
  reloader,  \* reloadHosts: waiting, loading, or holding what it has read
  read,      \* what Load has read
  client,    \* each client inside Resolve
  asked      \* history: SIGHUP was sent after the last change of the file

reload == <<table, file, pending, reloader, read, asked>>
vars   == <<reload, client>>

\* The local types with address records (A, AAAA, ANY), those without (CNAME,
\* HTTPS, SVCB), and all other types.
Types == {"addr", "hint", "other"}
LocalType(type) == type # "other"

\* A response: the first CNAME of each owner and the owners of direct addresses
\* in Answer, the owners of records of a local type in Ns and Extra, and whether
\* it claims to be signed (AD, RRSIG, NSEC).  Ours has local addresses too.
Message ==
  [alias : [Names -> Names \cup {NoName}], direct : SUBSET Names,
   local : SUBSET Names, extra : SUBSET Names, signed : BOOLEAN]

ASSUME SmartDNSAssumption ==
  /\ NoName \notin Names /\ Names # {} /\ IsFiniteSet(Names)
  /\ Tables \subseteq SUBSET Names /\ Tables # {} /\ Broken \notin Tables
  /\ Replies \subseteq {m \in Message : m.local = {}}

NoAlias == [n \in Names |-> NoName]
Error == [alias |-> NoAlias, direct |-> {}, local |-> {}, extra |-> {}, signed |-> TRUE]
Somebody == CHOOSE n \in Names : TRUE

Client ==
  [pc : {"idle", "first", "next", "second", "done"},
   name : Names, type : Types,
   early : Tables \cup {{}},        \* history: the table of the first look
   reply : Message,                 \* Error: an error or nil
   inForce : SUBSET Tables]         \* history: the tables since the reply

Idle == [pc |-> "idle", name |-> Somebody, type |-> "addr", early |-> {},
         reply |-> Error, inForce |-> {}]

TypeOK ==
  /\ table \in Tables /\ file \in Tables \cup {Broken} /\ read \in Tables \cup {Broken}
  /\ pending \in BOOLEAN /\ asked \in BOOLEAN
  /\ reloader \in {"waiting", "loading", "storing"}
  /\ client \in [Clients -> Client]

\* New fails on a file that does not parse, and the daemon does not start.
Init ==
  /\ table \in Tables /\ file = table /\ read = table
  /\ pending = FALSE /\ reloader = "waiting" /\ asked = FALSE
  /\ client = [p \in Clients |-> Idle]

-----------------------------------------------------------------------------
(* What a table makes of a response. *)

Local(t, name, type) == LocalType(type) /\ name \in t

\* local: the table's own answer.
Own(name, type) ==
  [Error EXCEPT !.local = IF type = "addr" THEN {name} ELSE {}, !.signed = FALSE]

\* The walk along the CNAMEs from name; it stops at a protected name.  seen ends
\* a loop in the code, the number of names here.
Walk(t, name, m) ==
  LET at[i \in 0..Cardinality(Names)] ==
        IF i = 0 THEN name
        ELSE IF at[i - 1] = NoName \/ at[i - 1] \in t THEN NoName
        ELSE m.alias[at[i - 1]]
  IN at

Visit(t, name, m) == {Walk(t, name, m)[i] : i \in 0..Cardinality(Names)} \ {NoName}

\* The chain found a protected name: the chain up to it, then the local records.
Redirect(t, name, type, m) ==
  LET seen == Visit(t, name, m) IN
    [Error EXCEPT !.alias = [n \in Names |-> IF n \in seen \ t THEN m.alias[n] ELSE NoName],
                  !.local = IF type = "addr" THEN seen \cap t ELSE {},
                  !.signed = FALSE]

\* sanitize.
Sanitize(t, name, type, m) ==
  IF LocalType(type) /\ Visit(t, name, m) \cap t # {}
  THEN Redirect(t, name, type, m)
  ELSE [m EXCEPT !.extra = @ \ t, !.signed = @ /\ m.extra \cap t = {}]

-----------------------------------------------------------------------------
(* Resolve. *)

At(p, step) == client[p].pc = step
Becomes(p, r) == client' = [client EXCEPT ![p] = r]

Ask(p, name, type) ==
  /\ client[p].pc \in {"idle", "done"}
  /\ Becomes(p, [Idle EXCEPT !.pc = "first", !.name = name, !.type = type])
  /\ UNCHANGED reload

\* The first look at the table: answered, or on to the resolver below.
FirstLook(p) ==
  LET c == client[p] IN
    /\ At(p, "first")
    /\ Becomes(p, IF Local(table, c.name, c.type) THEN [Idle EXCEPT !.pc = "done"]
                  ELSE [c EXCEPT !.pc = "next", !.early = table])
    /\ UNCHANGED reload

\* next.Resolve returns, with an error (or nil) or a response.
NextReplies(p, m) ==
  /\ At(p, "next")
  /\ Becomes(p, [client[p] EXCEPT !.pc = "second", !.reply = m, !.inForce = {table}])
  /\ UNCHANGED reload

\* What Resolve makes of the reply with table t.
Verdict(t, c) ==
  IF Local(t, c.name, c.type) THEN Own(c.name, c.type)
  ELSE IF c.reply = Error THEN Error
  ELSE Sanitize(t, c.name, c.type, c.reply)

\* Mutant: the first look is good for the whole query.
SecondLookEarly(p) ==
  /\ At(p, "second")
  /\ Becomes(p, [Idle EXCEPT !.pc = "done", !.reply = Verdict(client[p].early, client[p])])
  /\ UNCHANGED reload

\* The second look, at the table of now; reply becomes the answer.
SecondLook(p) ==
  /\ At(p, "second")
  /\ Becomes(p, [Idle EXCEPT !.pc = "done", !.reply = Verdict(table, client[p])])
  /\ UNCHANGED reload

-----------------------------------------------------------------------------
(* The hosts file, SIGHUP and reloadHosts. *)

EditFile(f) ==
  /\ f # file
  /\ file' = f /\ asked' = FALSE
  /\ UNCHANGED <<table, pending, reloader, read, client>>

\* Mutant: without the channel's buffer a signal during a reload is lost.
SighupUnbuffered ==
  /\ pending' = (reloader = "waiting") /\ asked' = TRUE
  /\ UNCHANGED <<table, file, reloader, read, client>>

Sighup ==
  /\ pending' = TRUE /\ asked' = TRUE
  /\ UNCHANGED <<table, file, reloader, read, client>>

TakeSignal ==
  /\ reloader = "waiting" /\ pending
  /\ reloader' = "loading" /\ pending' = FALSE
  /\ UNCHANGED <<table, file, read, asked, client>>

\* os.ReadFile and the parse.
LoadFile ==
  /\ reloader = "loading"
  /\ reloader' = "storing" /\ read' = file
  /\ UNCHANGED <<table, file, pending, asked, client>>

\* Mutant: the result of Load is published unseen.
PublishAnything ==
  /\ reloader = "storing"
  /\ reloader' = "waiting"
  /\ table' = read
  /\ UNCHANGED <<file, pending, read, asked, client>>

\* A file that does not parse leaves the table alone; any other is published.
Publish ==
  /\ reloader = "storing"
  /\ reloader' = "waiting"
  /\ table' = IF read = Broken THEN table ELSE read
  /\ client' = [p \in Clients |->
                  IF At(p, "second")
                  THEN [client[p] EXCEPT !.inForce = @ \cup {table'}]
                  ELSE client[p]]
  /\ UNCHANGED <<file, pending, read, asked>>

ReloadStep == TakeSignal \/ LoadFile \/ Publish

Next ==
  \/ \E p \in Clients :
       \/ \E n \in Names, type \in Types : Ask(p, n, type)
       \/ FirstLook(p) \/ \E m \in Replies \cup {Error} : NextReplies(p, m)
       \/ SecondLook(p)
  \/ \E f \in Tables \cup {Broken} : EditFile(f)
  \/ Sighup \/ ReloadStep

Spec == Init /\ [][Next]_vars

\* The goroutine reloadHosts runs.
FairSpec == Spec /\ WF_vars(ReloadStep)

-----------------------------------------------------------------------------
(* Properties. *)

\* The names a client comes to from name along the CNAMEs of an answer, in so
\* many steps and in all.
ReachIn(alias, name) ==
  LET upTo[i \in 0..Cardinality(Names)] ==
        IF i = 0 THEN {name}
        ELSE upTo[i - 1] \cup ({alias[n] : n \in upTo[i - 1]} \ {NoName})
  IN upTo

Reach(alias, name) == ReachIn(alias, name)[Cardinality(Names)]

\* Answer a to a query, when m came from below and t is the table: a client that
\* follows it comes to no protected name, or to exactly one, by the chain m had,
\* and finds there the local records only; otherwise nothing but what concerns
\* protected names is taken away, and the signatures only if something was.
Allowed(t, c, m, a) ==
  IF LocalType(c.type) /\ Reach(m.alias, c.name) \cap t # {}
  THEN /\ a.direct = {} /\ a.extra = {} /\ ~a.signed
       /\ \E n \in t : /\ Reach(a.alias, c.name) \cap t = {n}
                       /\ a.local = IF c.type = "addr" THEN {n} ELSE {}
       /\ \A n \in Names : a.alias[n] \in {m.alias[n], NoName}
  ELSE /\ a.alias = m.alias /\ a.direct = m.direct /\ a.local = {}
       /\ a.extra = m.extra \ t
       /\ a.signed <=> m.signed /\ a.extra = m.extra

\* CurrentPolicy: an answer that had to be fetched obeys, as a whole, one table
\* that was in force after the reply had come: a reload during the fetch
\* neither lets a newly protected name through nor leaves an override that is
\* gone, and the parts of one answer never follow different tables
\* (smartdns.go:105-106, 170-192, 194-271).
CurrentPolicy ==
  [][\A p \in Clients : At(p, "second") /\ client'[p].pc = "done" =>
       \E t \in client[p].inForce :
         IF client[p].reply = Error
         THEN client'[p].reply = IF Local(t, client[p].name, client[p].type)
                                 THEN Own(client[p].name, client[p].type) ELSE Error
         ELSE Allowed(t, client[p], client[p].reply, client'[p].reply)]_vars

\* ReloadTakesEffect: when the file has been changed and SIGHUP sent after that,
\* the daemon comes to serve it, whatever reload was under way, unless it does
\* not parse or changes again (main.go:106-109, 128-144).
ReloadTakesEffect ==
  \A f \in Tables : asked /\ file = f ~> table = f \/ file # f
=============================================================================
