------------------------------- MODULE Connect -------------------------------
(***************************************************************************)
(* One dial of an upstream after another, from the name to the connection: *)
(* connect and dialTargets of internal/upstream/doq.go over PlainDNS       *)
(* (Bootstrap) and the race of handshakes (DialRace).  When a dial is made *)
(* and what becomes of its connection is module DoQ; here the next one     *)
(* begins some time after the last.                                        *)
(***************************************************************************)
EXTENDS Bootstrap, DialRace

CONSTANTS
  Dial,      \* the one caller of Resolve
  Nowhere    \* no address

ASSUME ConnectAssumption ==
  /\ Callers = {Dial}
  /\ Nowhere \notin Addresses
  /\ \A z \in Zones : z \in Seq(Addresses) /\ Len(z) <= MaxTargets

VARIABLES
  preferred,   \* the address of the last connection
  alive        \* in calm, the one address where a server answers

vars == <<bootVars, raceVars, preferred, alive>>

TypeOK ==
  /\ BootTypeOK /\ RaceTypeOK
  /\ preferred \in Addresses \cup {Nowhere}
  /\ alive \in Addresses \cup {Nowhere}

Init == BootInit /\ RaceInit /\ preferred = Nowhere /\ alive = Nowhere

\* dialTargets: the last successful address first, the others in their order; order
\* says where in the list each of the targets stands.
PreferredFirst(list, order) ==
  /\ {order[i] : i \in DOMAIN list} = DOMAIN list
  /\ \A i, j \in DOMAIN list : i < j =>
       IF (list[order[i]] = preferred) = (list[order[j]] = preferred)
       THEN order[i] < order[j] ELSE list[order[i]] = preferred

\* A dial begins; what the last one left behind shares nothing with it.
BeginDial ==
  /\ Settled /\ lookup[Dial].pc = "idle"
  /\ BeginLookup(Dial)
  /\ state' = "idle" /\ targets' = <<>> /\ hand' = [i \in Places |-> "waiting"]
  /\ next' = 0 /\ winner' = 0
  /\ UNCHANGED <<pending, left, preferred, alive>>

\* connect has the addresses, or the error of the lookup.
GotTargets ==
  /\ Looks(Dial, "done", "idle", <<>>)
  /\ LET list == lookup[Dial].ips IN
       \E order \in [DOMAIN list -> DOMAIN list] :
         PreferredFirst(list, order) /\ Launch([i \in DOMAIN list |-> list[order[i]]])
  /\ UNCHANGED <<kept, ips, marked, query, zone, calm, preferred, alive>>

\* In calm the server that is alive answers, and the others do not.
Handshake(i, result) ==
  /\ HandshakeDone(i, result)
  /\ calm => result = IF targets[i] = alive /\ state = "racing" THEN "up" ELSE "refused"
  /\ UNCHANGED <<bootVars, preferred, alive>>

\* dial remembers the address of the winner.
Win(i) ==
  /\ ReceiveWinner(i)
  /\ preferred' = targets[i]
  /\ UNCHANGED <<bootVars, alive>>

RaceStep ==
  /\ \/ Tick
     \/ \E i \in Places : LaunchAfterFailure(i) \/ CountFailure(i) \/ Drain(i)
  /\ UNCHANGED <<bootVars, preferred, alive>>

BootStep ==
  /\ (\E q \in Askers : AskerStep(q)) \/ CallerStep(Dial) \/ Expire \/ ZoneChanges
  /\ UNCHANGED <<raceVars, preferred, alive>>

\* The storm is over; one of the addresses the name has now is alive.
Calms ==
  /\ ~calm /\ calm' = TRUE
  /\ \E i \in DOMAIN zone : alive' = zone[i]
  /\ UNCHANGED <<kept, ips, marked, query, lookup, zone, raceVars, preferred>>

Race(i) == Win(i) \/ \E r \in {"up", "refused"} : Handshake(i, r)

Next ==
  \/ BeginDial \/ GotTargets
  \/ (\E i \in Places : Race(i)) \/ RaceStep \/ BootStep \/ Calms

Spec == Init /\ [][Next]_vars

(* Clients keep asking, so there is always another dial; the goroutines    *)
(* run, an attempt at a lookup or a handshake has its limit, what is kept  *)
(* grows old.  Neither the timers nor the end of the storm are counted on. *)
Apart == UNCHANGED <<raceVars, preferred, alive>>

Fairness ==
  /\ WF_vars(BeginDial) /\ WF_vars(GotTargets)
  /\ WF_vars(CallerStep(Dial) /\ Apart)
  /\ \A q \in Askers : WF_vars(AskerStep(q) /\ Apart)
  /\ WF_vars(Expire /\ Apart)
  /\ WF_vars((\E i \in Places : Race(i)) \/ RaceStep)

FairSpec == Spec /\ Fairness
-----------------------------------------------------------------------------
(* Properties. *)

\* RefreshIsMarked: the mark stands exactly as long as the goroutine it stands for
\* runs, however the refresh ends: a mark left behind would keep the old addresses
\* for good, one taken away too early would let every dial of a dead server start
\* one more (bootstrap.go:127-146).
RefreshIsMarked ==
  Cardinality({r \in Refreshers : query[r].pc # "idle"}) = IF marked THEN 1 ELSE 0

\* Consistent: the types, and the mark of the refresh (bootstrap.go:49-58, 127-146).
Consistent == TypeOK /\ RefreshIsMarked

\* LookupFailsOnlyAfterAll: a lookup is given up only when every server has failed
\* over both protocols and every result was received (bootstrap.go:176-191).
LookupFailsOnlyAfterAll ==
  [][\A q \in Askers : query[q].pc = "asking" /\ query'[q].pc \in {"idle", "unmark"} =>
       Ended(query[q]) /\ Len(query[q].out) = 1]_vars

\* QueriesEnd: of every query of the bootstrap nothing stays behind, not even a
\* goroutine that hangs on a channel nobody reads (bootstrap.go:176-213).
QueriesEnd == \A q \in Askers : []<>Over(query[q])

\* ConnectEnds: dial after dial is decided, whatever servers and addresses do, and
\* its losers are closed (doq.go:256-333).
ConnectEnds == []<>(state \in {"won", "failed"} /\ Settled)

\* MovedServerFound: as long as one server of the bootstrap answers, be it over TCP
\* only, and one of the name's present addresses is alive, a connection comes about
\* (calm, once it has come, stays), with whatever was kept of the name before: stale
\* addresses are given at once, and replaced behind the dial's back
\* (bootstrap.go:88-147, doq.go:158-179).
MovedServerFound == []<>(calm => state = "won")
=============================================================================
