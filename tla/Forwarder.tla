----------------------------- MODULE Forwarder -----------------------------
(***************************************************************************)
(* What a client may expect of the caching forwarder, without the list,    *)
(* the calls and the timers by which internal/resolver and internal/cache  *)
(* bring it about.  The forwarder remembers a version of what the          *)
(* upstreams knew of a name; a request that finds one remembered is        *)
(* answered, and never with anything older.                                *)
(***************************************************************************)
EXTENDS Integers

CONSTANTS
  Clients,
  Keys,
  Versions   \* natural numbers; a greater one is newer

VARIABLES
  zone,   \* the version of each name at the upstreams
  kept,   \* the version remembered, or None
  req     \* the request of each client

vars == <<zone, kept, req>>

None == -1
Kept == Versions \cup {None}

\* What a client got: data of a version, another rcode, SERVFAIL or an error.
Data(v) == [kind |-> "data", ver |-> v]
NoData(kind) == [kind |-> kind, ver |-> None]
Answers == [kind : {"none", "data", "other", "failed"}, ver : Kept]

\* A request is asked, has looked into the memory (floor), and is done.
Request ==
  [pc : {"idle", "asked", "looked", "done"},
   key : Keys,
   floor : Kept,
   answer : Answers]

TypeOK ==
  /\ zone \in [Keys -> Versions]
  /\ kept \in [Keys -> Kept]
  /\ req \in [Clients -> Request]

AnyKey == CHOOSE k \in Keys : TRUE

Init ==
  /\ zone \in [Keys -> Versions]
  /\ kept = [k \in Keys |-> None]
  /\ req = [p \in Clients |->
              [pc |-> "idle", key |-> AnyKey, floor |-> None, answer |-> NoData("none")]]

Between(p) == req[p].pc \in {"idle", "done"}

Finish(p, answer) ==
  /\ req' = [req EXCEPT ![p] = [pc |-> "done", key |-> AnyKey, floor |-> None,
                                answer |-> answer]]
  /\ UNCHANGED <<zone, kept>>

Ask(p, k) ==
  /\ Between(p)
  /\ req' = [req EXCEPT ![p] = [pc |-> "asked", key |-> k, floor |-> None,
                                answer |-> NoData("none")]]
  /\ UNCHANGED <<zone, kept>>

\* A request of no single question goes to the upstreams and comes back somehow.
PassThrough(p) ==
  /\ Between(p)
  /\ \E kind \in {"other", "failed"} : Finish(p, NoData(kind))

\* Answered from memory.
Remember(p) ==
  /\ req[p].pc = "asked" /\ kept[req[p].key] # None
  /\ Finish(p, Data(kept[req[p].key]))

\* Not answered from memory; what is in it is the least the client will get.
Look(p) ==
  /\ req[p].pc = "asked"
  /\ req' = [req EXCEPT ![p].pc = "looked", ![p].floor = kept[req[p].key]]
  /\ UNCHANGED <<zone, kept>>

\* Data the upstreams had, not older than what was in memory.
Answer(p, v) ==
  /\ req[p].pc = "looked"
  /\ req[p].floor <= v /\ v <= zone[req[p].key]
  /\ Finish(p, Data(v))

\* What the upstreams said of the name, if it was neither data nor SERVFAIL.
Other(p) == req[p].pc = "looked" /\ Finish(p, NoData("other"))

\* A failure reaches the client only when nothing was in memory.
Fail(p) ==
  /\ req[p].pc = "looked" /\ req[p].floor = None
  /\ Finish(p, NoData("failed"))

\* The memory moves forward, and may lose names at any time.
Learn(k, v, lost) ==
  /\ kept[k] <= v /\ v <= zone[k]
  /\ kept' = [j \in Keys |-> IF j \in lost THEN None ELSE IF j = k THEN v ELSE kept[j]]
  /\ UNCHANGED <<zone, req>>

Forget(lost) ==
  /\ kept' = [j \in Keys |-> IF j \in lost THEN None ELSE kept[j]]
  /\ UNCHANGED <<zone, req>>

ZoneChanges(k) ==
  /\ \E v \in Versions : zone[k] < v /\ zone' = [zone EXCEPT ![k] = v]
  /\ UNCHANGED <<kept, req>>

Next ==
  \/ \E p \in Clients : \/ \E k \in Keys : Ask(p, k)
                        \/ \E v \in Versions : Answer(p, v)
                        \/ PassThrough(p) \/ Remember(p) \/ Look(p)
                        \/ Other(p) \/ Fail(p)
  \/ \E k \in Keys : ZoneChanges(k)
  \/ \E lost \in SUBSET Keys :
       \/ Forget(lost)
       \/ \E k \in Keys, v \in Versions : Learn(k, v, lost)

Spec == Init /\ [][Next]_vars
=============================================================================
