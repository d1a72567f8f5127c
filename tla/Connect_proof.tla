--------------------------- MODULE Connect_proof ---------------------------
(***************************************************************************)
(* Proofs about the way from a name to a connection: the race of           *)
(* handshakes closes its losers and gives up only at the end, the mark of  *)
(* a background refresh stands exactly as long as the refresh, and a       *)
(* lookup waits for every server, for any number of servers, addresses and *)
(* refreshers.                                                             *)
(***************************************************************************)
EXTENDS Connect, FiniteSetTheorems, SequenceTheorems, TLAPS

-----------------------------------------------------------------------------
(* The race: pending and left count the results that have not been received. *)

Awaited == {i \in Places : hand[i] \in {"dialing", "up", "refused"}}

RaceInv ==
  /\ next <= Len(targets)
  /\ \A i \in Places : hand[i] = "waiting" <=> i > next
  /\ state = "idle" => next = 0
  /\ state = "racing" =>
       /\ pending = Cardinality(Awaited) /\ pending > 0
       /\ \A i \in Places : hand[i] \notin {"used", "closed"}
  /\ state = "won" =>
       /\ left = Cardinality(Awaited)
       /\ winner \in Places /\ \A i \in Places : hand[i] = "used" <=> i = winner
  /\ state = "failed" =>
       /\ next = Len(targets) /\ Awaited = {}
       /\ \A i \in Places : hand[i] \notin {"used", "closed"}

(* The mark: while it stands exactly one refresher runs, and none without.   *)

MarkInv ==
  /\ \A c \in Callers : query[c].pc # "unmark"
  /\ IF marked THEN \E r \in Refreshers : \A s \in Refreshers : query[s].pc # "idle" <=> s = r
               ELSE \A s \in Refreshers : query[s].pc = "idle"

(* A query: what it has not received is being worked on or stands in out.    *)

Working(r) == {a \in Attempts : r.att[a] # "none"}

Accounted(r) == r.pc = "asking" => r.left = Cardinality(Working(r)) + Len(r.out)

QueryInv == \A q \in Askers : Accounted(query[q])
-----------------------------------------------------------------------------
(* The race, step by step. *)

LEMMA SomePlaces ==
  ASSUME NEW S \in SUBSET Places
  PROVE  IsFiniteSet(S) /\ Cardinality(S) \in 0..MaxTargets
<1>1. IsFiniteSet(Places) /\ Cardinality(Places) = MaxTargets
  BY DialRaceAssumption, FS_Interval DEF Places
<1>2. IsFiniteSet(S) /\ Cardinality(S) <= MaxTargets
  BY <1>1, FS_Subset
<1>. QED BY <1>2, FS_CardinalityType, DialRaceAssumption

LEMMA RaceTypes ==
  ASSUME RaceTypeOK
  PROVE  /\ next \in Nat /\ pending \in Nat /\ winner \in Nat /\ left \in Nat
         /\ next <= MaxTargets /\ pending <= MaxTargets /\ left <= MaxTargets
         /\ winner <= MaxTargets
         /\ Len(targets) \in Nat /\ Len(targets) <= MaxTargets /\ MaxTargets \in Nat
         /\ \A i : i \in Places <=> i \in Nat /\ 1 <= i /\ i <= MaxTargets
BY DialRaceAssumption DEF RaceTypeOK, Places

LEMMA LaunchStep ==
  ASSUME NEW list \in Seq(Addresses), Len(list) <= MaxTargets, Launch(list)
  PROVE  RaceTypeOK' /\ RaceInv'
<1>1. Len(list) \in Nat /\ MaxTargets \in Nat /\ targets' = list
  BY DialRaceAssumption DEF Launch
<1>2. CASE list = <<>>
  <2>1. /\ hand' = [i \in Places |-> IF i = 0 THEN "dialing" ELSE "waiting"]
        /\ next' = 0 /\ pending' = 0 /\ state' = "failed" /\ winner' = 0 /\ left' = 0
    BY <1>2 DEF Launch
  <2>2. \A i \in Places : hand'[i] = "waiting" /\ i > 0
    BY <2>1 DEF Places
  <2>3. Awaited' = {} BY <2>2 DEF Awaited
  <2>4. RaceTypeOK' BY <1>1, <2>1 DEF RaceTypeOK
  <2>. QED BY <1>1, <1>2, <2>1, <2>2, <2>3, <2>4 DEF RaceInv
<1>3. CASE list # <<>>
  <2>1. /\ hand' = [i \in Places |-> IF i = 1 THEN "dialing" ELSE "waiting"]
        /\ next' = 1 /\ pending' = 1 /\ state' = "racing" /\ winner' = 0 /\ left' = 0
    BY <1>3 DEF Launch
  <2>2. Len(list) >= 1 BY <1>1, <1>3
  <2>3. 1 \in Places /\ \A i \in Places : i = 1 \/ i > 1
    BY <1>1, <2>2 DEF Places
  <2>4. Awaited' = {1} BY <2>1, <2>3 DEF Awaited
  <2>5. Cardinality(Awaited') = 1 BY <2>4, FS_Singleton
  <2>6. RaceTypeOK' BY <1>1, <2>1, <2>2 DEF RaceTypeOK
  <2>7. \A i \in Places : hand'[i] = "waiting" <=> i > 1
    BY <2>1, <2>3
  <2>8. \A i \in Places : hand'[i] \notin {"used", "closed"}
    BY <2>1
  <2>. QED BY <1>1, <2>1, <2>2, <2>5, <2>6, <2>7, <2>8 DEF RaceInv
<1>. QED BY <1>2, <1>3

LEMMA HandshakeStep ==
  ASSUME RaceTypeOK, RaceInv, NEW i \in Places, NEW r \in {"up", "refused"}, HandshakeDone(i, r)
  PROVE  RaceTypeOK' /\ RaceInv'
<1>1. RaceTypeOK' BY DEF HandshakeDone, RaceTypeOK
<1>2. hand[i] = "dialing" /\ hand'[i] = r /\ \A j \in Places \ {i} : hand'[j] = hand[j]
  BY DEF HandshakeDone, RaceTypeOK
<1>3. Awaited' = Awaited BY <1>2 DEF Awaited
<1>4. \A j \in Places : /\ hand'[j] = "waiting" <=> hand[j] = "waiting"
                        /\ hand'[j] = "used" <=> hand[j] = "used"
                        /\ hand'[j] = "closed" <=> hand[j] = "closed"
  BY <1>2
<1>5. UNCHANGED <<targets, next, pending, state, winner, left>> BY DEF HandshakeDone
<1>. QED BY <1>1, <1>3, <1>4, <1>5 DEF RaceInv

\* A result is received and nothing is launched: one less is awaited.
LEMMA ReceivedOne ==
  ASSUME RaceTypeOK, NEW i \in Places, hand[i] \in {"up", "refused"},
         NEW to \in {"used", "counted", "closed"}, hand' = [hand EXCEPT ![i] = to]
  PROVE  /\ hand' \in [Places -> {"waiting", "dialing", "up", "refused", "used", "counted", "closed"}]
         /\ hand'[i] = to /\ \A j \in Places \ {i} : hand'[j] = hand[j]
         /\ Awaited' = Awaited \ {i} /\ i \in Awaited
         /\ Cardinality(Awaited') = Cardinality(Awaited) - 1
         /\ Cardinality(Awaited) \in 1..MaxTargets
<1>1. /\ hand' \in [Places -> {"waiting", "dialing", "up", "refused", "used", "counted", "closed"}]
      /\ hand'[i] = to /\ \A j \in Places \ {i} : hand'[j] = hand[j]
  BY DEF RaceTypeOK
<1>2. Awaited' = Awaited \ {i} /\ i \in Awaited
  BY <1>1 DEF Awaited
<1>3. Awaited \in SUBSET Places BY DEF Awaited
<1>4. IsFiniteSet(Awaited) /\ Cardinality(Awaited) \in 0..MaxTargets
  BY <1>3, SomePlaces
<1>5. Cardinality(Awaited') = Cardinality(Awaited) - 1
  BY <1>2, <1>4, FS_RemoveElement
<1>6. Cardinality(Awaited) # 0 BY <1>2, <1>4, FS_EmptySet
<1>. QED BY <1>1, <1>2, <1>4, <1>5, <1>6, DialRaceAssumption

LEMMA WinnerStep ==
  ASSUME RaceTypeOK, RaceInv, NEW i \in Places, ReceiveWinner(i)
  PROVE  RaceTypeOK' /\ RaceInv'
<1>1. /\ state = "racing" /\ hand[i] = "up" /\ hand' = [hand EXCEPT ![i] = "used"]
      /\ pending' = pending - 1 /\ left' = pending - 1 /\ state' = "won" /\ winner' = i
      /\ targets' = targets /\ next' = next
  BY DEF ReceiveWinner
<1>2. /\ hand' \in [Places -> {"waiting", "dialing", "up", "refused", "used", "counted", "closed"}]
      /\ hand'[i] = "used" /\ \A j \in Places \ {i} : hand'[j] = hand[j]
      /\ Cardinality(Awaited') = Cardinality(Awaited) - 1
      /\ Cardinality(Awaited) \in 1..MaxTargets
  BY <1>1, ReceivedOne
<1>3. pending = Cardinality(Awaited) BY <1>1 DEF RaceInv
<1>4. pending - 1 \in 0..MaxTargets BY <1>2, <1>3, DialRaceAssumption
<1>5. RaceTypeOK' BY <1>1, <1>2, <1>4, RaceTypes DEF RaceTypeOK, Places
<1>6. \A j \in Places : hand'[j] = "used" <=> j = i
  BY <1>1, <1>2 DEF RaceInv
<1>7. \A j \in Places : hand'[j] = "waiting" <=> j > next
  BY <1>1, <1>2 DEF RaceInv
<1>. QED BY <1>1, <1>2, <1>3, <1>5, <1>6, <1>7 DEF RaceInv

\* The next address is launched: one more is awaited.
LEMMA NextPlace ==
  ASSUME RaceTypeOK, RaceInv, next < Len(targets)
  PROVE  /\ next + 1 \in Places /\ hand[next + 1] = "waiting" /\ next + 1 \notin Awaited
         /\ next + 1 \in 0..MaxTargets /\ next + 1 <= Len(targets)
<1>1. next + 1 \in Nat /\ next + 1 <= Len(targets) /\ next + 1 <= MaxTargets /\ next + 1 > next
  BY RaceTypes
<1>2. next + 1 \in Places BY <1>1, RaceTypes
<1>3. hand[next + 1] = "waiting" BY <1>1, <1>2 DEF RaceInv
<1>. QED BY <1>1, <1>2, <1>3, DialRaceAssumption DEF Awaited

LEMMA FailureLaunchesStep ==
  ASSUME RaceTypeOK, RaceInv, NEW i \in Places, LaunchAfterFailure(i)
  PROVE  RaceTypeOK' /\ RaceInv'
<1>. DEFINE n == next + 1
<1>1. /\ state = "racing" /\ hand[i] = "refused" /\ next < Len(targets)
      /\ hand' = [hand EXCEPT ![i] = "counted", ![n] = "dialing"] /\ next' = n
      /\ UNCHANGED <<targets, pending, state, winner, left>>
  BY DEF LaunchAfterFailure
<1>2. /\ n \in Places /\ hand[n] = "waiting" /\ n \notin Awaited
      /\ n \in 0..MaxTargets /\ n <= Len(targets)
  BY <1>1, NextPlace
<1>3. n # i BY <1>1, <1>2
<1>4. /\ hand' \in [Places -> {"waiting", "dialing", "up", "refused", "used", "counted", "closed"}]
      /\ hand'[i] = "counted" /\ hand'[n] = "dialing"
      /\ \A j \in Places \ {i, n} : hand'[j] = hand[j]
  BY <1>1, <1>2, <1>3 DEF RaceTypeOK
<1>5. \A j \in Places : j > n <=> j > next /\ j # n
  BY RaceTypes
<1>. HIDE DEF n
<1>6. Awaited' = (Awaited \ {i}) \cup {n} /\ i \in Awaited
  BY <1>1, <1>2, <1>3, <1>4 DEF Awaited
<1>7. Awaited \in SUBSET Places BY DEF Awaited
<1>8. IsFiniteSet(Awaited) /\ Cardinality(Awaited) \in Nat BY <1>7, SomePlaces
<1>9. IsFiniteSet(Awaited \ {i}) /\ Cardinality(Awaited \ {i}) = Cardinality(Awaited) - 1
  BY <1>6, <1>8, FS_RemoveElement
<1>10. Cardinality(Awaited') = Cardinality(Awaited \ {i}) + 1
  BY <1>2, <1>6, <1>9, FS_AddElement
<1>11. RaceTypeOK' BY <1>1, <1>2, <1>4 DEF RaceTypeOK
<1>12. \A j \in Places : hand'[j] = "waiting" <=> j > n
  BY <1>1, <1>2, <1>4, <1>5 DEF RaceInv
<1>13. \A j \in Places : hand'[j] \notin {"used", "closed"}
  BY <1>1, <1>4 DEF RaceInv
<1>14. Cardinality(Awaited') = Cardinality(Awaited) BY <1>8, <1>9, <1>10
<1>. QED BY <1>1, <1>2, <1>11, <1>12, <1>13, <1>14 DEF RaceInv

LEMMA TickStep ==
  ASSUME RaceTypeOK, RaceInv, Tick
  PROVE  RaceTypeOK' /\ RaceInv'
<1>. DEFINE n == next + 1
<1>1. /\ state = "racing" /\ next < Len(targets)
      /\ hand' = [hand EXCEPT ![n] = "dialing"] /\ next' = n /\ pending' = pending + 1
      /\ UNCHANGED <<targets, state, winner, left>>
  BY DEF Tick
<1>2. /\ n \in Places /\ hand[n] = "waiting" /\ n \notin Awaited
      /\ n \in 0..MaxTargets /\ n <= Len(targets)
  BY <1>1, NextPlace
<1>3. /\ hand' \in [Places -> {"waiting", "dialing", "up", "refused", "used", "counted", "closed"}]
      /\ hand'[n] = "dialing" /\ \A j \in Places \ {n} : hand'[j] = hand[j]
  BY <1>1, <1>2 DEF RaceTypeOK
<1>4. \A j \in Places : j > n <=> j > next /\ j # n
  BY RaceTypes
<1>. HIDE DEF n
<1>5. Awaited' = Awaited \cup {n} BY <1>2, <1>3 DEF Awaited
<1>6. Awaited \in SUBSET Places /\ Awaited' \in SUBSET Places BY <1>2, <1>5 DEF Awaited
<1>7. IsFiniteSet(Awaited) /\ Cardinality(Awaited) \in Nat BY <1>6, SomePlaces
<1>8. Cardinality(Awaited') = Cardinality(Awaited) + 1 BY <1>2, <1>5, <1>7, FS_AddElement
<1>9. Cardinality(Awaited') \in 0..MaxTargets BY <1>6, SomePlaces
<1>10. pending = Cardinality(Awaited) BY <1>1 DEF RaceInv
<1>11. RaceTypeOK' BY <1>1, <1>2, <1>3, <1>8, <1>9, <1>10 DEF RaceTypeOK
<1>12. \A j \in Places : hand'[j] = "waiting" <=> j > n
  BY <1>2, <1>3, <1>4 DEF RaceInv
<1>13. \A j \in Places : hand'[j] \notin {"used", "closed"}
  BY <1>1, <1>3 DEF RaceInv
<1>14. pending' > 0 /\ pending' = Cardinality(Awaited') BY <1>1, <1>7, <1>8, <1>10
<1>. QED BY <1>1, <1>2, <1>11, <1>12, <1>13, <1>14 DEF RaceInv

LEMMA CountStep ==
  ASSUME RaceTypeOK, RaceInv, NEW i \in Places, CountFailure(i)
  PROVE  RaceTypeOK' /\ RaceInv'
<1>1. /\ state = "racing" /\ hand[i] = "refused" /\ next = Len(targets)
      /\ hand' = [hand EXCEPT ![i] = "counted"] /\ pending' = pending - 1
      /\ state' = IF pending = 1 THEN "failed" ELSE "racing"
      /\ UNCHANGED <<targets, next, winner, left>>
  BY DEF CountFailure
<1>2. /\ hand' \in [Places -> {"waiting", "dialing", "up", "refused", "used", "counted", "closed"}]
      /\ hand'[i] = "counted" /\ \A j \in Places \ {i} : hand'[j] = hand[j]
      /\ Awaited' = Awaited \ {i}
      /\ Cardinality(Awaited') = Cardinality(Awaited) - 1
      /\ Cardinality(Awaited) \in 1..MaxTargets
  BY <1>1, ReceivedOne
<1>3. pending = Cardinality(Awaited) BY <1>1 DEF RaceInv
<1>4. pending - 1 \in 0..MaxTargets BY <1>2, <1>3, DialRaceAssumption
<1>5. RaceTypeOK' BY <1>1, <1>2, <1>4 DEF RaceTypeOK
<1>6. \A j \in Places : hand'[j] = "waiting" <=> j > next
  BY <1>1, <1>2 DEF RaceInv
<1>7. \A j \in Places : hand'[j] \notin {"used", "closed"}
  BY <1>1, <1>2 DEF RaceInv
<1>8. CASE pending = 1
  <2>1. Awaited' \in SUBSET Places BY <1>2 DEF Awaited
  <2>2. Cardinality(Awaited') = 0 BY <1>2, <1>3, <1>8
  <2>3. Awaited' = {} BY <2>1, <2>2, SomePlaces, FS_EmptySet
  <2>. QED BY <1>1, <1>5, <1>6, <1>7, <1>8, <2>3 DEF RaceInv
<1>9. CASE pending # 1
  <2>1. pending' > 0 /\ pending' = Cardinality(Awaited')
    BY <1>1, <1>2, <1>3, <1>9
  <2>. QED BY <1>1, <1>5, <1>6, <1>7, <1>9, <2>1 DEF RaceInv
<1>. QED BY <1>8, <1>9

LEMMA DrainStep ==
  ASSUME RaceTypeOK, RaceInv, NEW i \in Places, Drain(i)
  PROVE  RaceTypeOK' /\ RaceInv'
<1>. DEFINE to == IF hand[i] = "up" THEN "closed" ELSE "counted"
<1>1. /\ state = "won" /\ hand[i] \in {"up", "refused"}
      /\ hand' = [hand EXCEPT ![i] = to] /\ left' = left - 1
      /\ UNCHANGED <<targets, next, pending, state, winner>>
  BY DEF Drain
<1>2. to \in {"used", "counted", "closed"} /\ to # "used" /\ to # "waiting" OBVIOUS
<1>. HIDE DEF to
<1>3. /\ hand' \in [Places -> {"waiting", "dialing", "up", "refused", "used", "counted", "closed"}]
      /\ hand'[i] = to /\ \A j \in Places \ {i} : hand'[j] = hand[j]
      /\ Cardinality(Awaited') = Cardinality(Awaited) - 1
      /\ Cardinality(Awaited) \in 1..MaxTargets
  BY <1>1, <1>2, ReceivedOne
<1>4. left = Cardinality(Awaited) BY <1>1 DEF RaceInv
<1>5. left - 1 \in 0..MaxTargets BY <1>3, <1>4, DialRaceAssumption
<1>6. RaceTypeOK' BY <1>1, <1>3, <1>5 DEF RaceTypeOK
<1>7. \A j \in Places : hand'[j] = "used" <=> j = winner
  BY <1>1, <1>2, <1>3 DEF RaceInv
<1>8. \A j \in Places : hand'[j] = "waiting" <=> j > next
  BY <1>1, <1>2, <1>3 DEF RaceInv
<1>. QED BY <1>1, <1>3, <1>4, <1>6, <1>7, <1>8 DEF RaceInv

\* A dial that begins starts from nothing.
LEMMA ResetStep ==
  ASSUME RaceTypeOK, BeginDial
  PROVE  RaceTypeOK' /\ RaceInv'
<1>1. /\ state' = "idle" /\ targets' = <<>> /\ hand' = [i \in Places |-> "waiting"]
      /\ next' = 0 /\ winner' = 0 /\ pending' = pending /\ left' = left
  BY DEF BeginDial
<1>2. RaceTypeOK' BY <1>1, DialRaceAssumption DEF RaceTypeOK
<1>3. \A i \in Places : i > 0 BY DEF Places
<1>4. Len(<<>>) = 0 OBVIOUS
<1>. QED BY <1>1, <1>2, <1>3, <1>4 DEF RaceInv

LEMMA RaceUnchanged ==
  ASSUME RaceTypeOK, RaceInv, UNCHANGED raceVars
  PROVE  RaceTypeOK' /\ RaceInv'
BY DEF raceVars, RaceTypeOK, RaceInv, Awaited
-----------------------------------------------------------------------------
(* The lookups: what each step makes of a query. *)

LEMMA AttemptsFinite ==
  ASSUME NEW S \in SUBSET Attempts
  PROVE  IsFiniteSet(S) /\ Cardinality(S) \in Nat /\ Cardinality(S) <= Cardinality(Attempts)
<1>1. IsFiniteSet({"udp", "tcp"})
  <2>1. IsFiniteSet({"udp"}) BY FS_Singleton
  <2>2. {"udp", "tcp"} = {"udp"} \cup {"tcp"} OBVIOUS
  <2>. QED BY <2>1, <2>2, FS_AddElement
<1>2. IsFiniteSet(Attempts)
  BY <1>1, BootstrapAssumption, FS_Product DEF Attempts
<1>. QED BY <1>2, FS_Subset, FS_CardinalityType

\* The fields of a query.
LEMMA QueryFields ==
  ASSUME NEW r
  PROVE  r \in Query <=>
           /\ r = [pc |-> r.pc, over |-> r.over, att |-> r.att, out |-> r.out, left |-> r.left,
                   found |-> r.found]
           /\ r.pc \in {"idle", "asking", "store", "unmark"}
           /\ r.over \in BOOLEAN
           /\ r.att \in [Attempts -> {"none", "waits", "asks"}]
           /\ r.out \in Seq(Zones \cup {<<>>})
           /\ r.left \in 0..Cardinality(Attempts)
           /\ r.found \in Zones \cup {<<>>}
BY DEF Query

LEMMA NoQueryType == NoQuery \in Query /\ Accounted(NoQuery)
<1>1. Cardinality(Attempts) \in Nat BY AttemptsFinite
<1>. QED BY <1>1 DEF NoQuery, Query, Accounted

LEMMA StartedType == Started \in Query /\ Accounted(Started) /\ Started.pc = "asking"
<1>. DEFINE how == [a \in Attempts |-> IF a[2] = "udp" THEN "asks" ELSE "waits"]
            none == [a \in Attempts |-> "none"]
<1>1. /\ NoQuery = [pc |-> "idle", over |-> FALSE, att |-> none, out |-> <<>>, left |-> 0,
                     found |-> <<>>]
      /\ Started = [NoQuery EXCEPT !.pc = "asking", !.left = Cardinality(Attempts), !.att = how]
  BY DEF Started, NoQuery
<1>2. Cardinality(Attempts) \in Nat BY AttemptsFinite
<1>3. how \in [Attempts -> {"none", "waits", "asks"}] OBVIOUS
<1>4. {a \in Attempts : how[a] # "none"} = Attempts OBVIOUS
<1>. HIDE DEF how, none
<1>5. Started = [pc |-> "asking", over |-> FALSE, att |-> how, out |-> <<>>,
                 left |-> Cardinality(Attempts), found |-> <<>>]
  BY <1>1
<1>6. Started \in Query BY <1>2, <1>3, <1>5 DEF Query
<1>7. Started.att = how /\ Started.out = <<>> /\ Started.left = Cardinality(Attempts)
      /\ Started.pc = "asking"
  BY <1>5
<1>8. Working(Started) = Attempts BY <1>4, <1>7 DEF Working
<1>9. Len(Started.out) = 0 BY <1>7
<1>10. Accounted(Started) BY <1>2, <1>7, <1>8, <1>9 DEF Accounted
<1>. QED BY <1>6, <1>7, <1>10

\* What Becomes does to the function of queries.
LEMMA QuerySet ==
  ASSUME query \in [Askers -> Query], QueryInv, NEW q \in Askers,
         NEW r \in Query, Accounted(r), Becomes(q, r)
  PROVE  /\ query' \in [Askers -> Query] /\ QueryInv'
         /\ query'[q].pc = r.pc
         /\ \A p \in Askers \ {q} : query'[p] = query[p]
<1>. DEFINE n == IF Over(r) THEN NoQuery ELSE r
<1>1. n \in Query /\ Accounted(n) BY NoQueryType
<1>2. n.pc = r.pc BY DEF Over, NoQuery
<1>3. query' = [query EXCEPT ![q] = n] BY DEF Becomes
<1>. HIDE DEF n
<1>4. query' \in [Askers -> Query] /\ query'[q] = n
      /\ \A p \in Askers \ {q} : query'[p] = query[p]
  BY <1>1, <1>3
<1>5. \A p \in Askers : Accounted(query'[p])
  BY <1>1, <1>4 DEF QueryInv
<1>6. QueryInv' BY <1>5 DEF QueryInv, Accounted, Working
<1>. QED BY <1>2, <1>4, <1>6

\* The mark is as true as before when no refresher begins or ends.
LEMMA MarkKept ==
  ASSUME MarkInv, marked' = marked, NEW q \in Askers,
         \A p \in Askers \ {q} : query'[p] = query[p],
         q \in Callers => query'[q].pc # "unmark",
         q \in Refreshers => (query'[q].pc = "idle" <=> query[q].pc = "idle")
  PROVE  MarkInv'
<1>1. \A c \in Callers : query'[c].pc # "unmark"
  BY DEF MarkInv, Askers
<1>2. \A s \in Refreshers : query'[s].pc = "idle" <=> query[s].pc = "idle"
  BY DEF Askers
<1>. QED BY <1>1, <1>2 DEF MarkInv

BootInv == BootTypeOK /\ MarkInv /\ QueryInv

\* An attempt goes on: nothing of the account changes.
LEMMA TcpStep ==
  ASSUME BootInv, NEW q \in Askers, NEW s \in Servers, TcpStarts(q, s)
  PROVE  BootInv'
<1>. DEFINE a == <<s, "tcp">>
            r == [query[q] EXCEPT !.att[a] = "asks"]
<1>1. query[q] \in Query /\ a \in Attempts BY DEF BootInv, BootTypeOK, Attempts
<1>2. query[q].att[a] = "waits" /\ Becomes(q, r) /\ UNCHANGED <<kept, ips, marked, lookup, zone, calm>>
  BY DEF TcpStarts
<1>. HIDE DEF a
<1>3. r \in Query /\ r.pc = query[q].pc /\ r.left = query[q].left /\ r.out = query[q].out
      /\ r.att = [query[q].att EXCEPT ![a] = "asks"]
  BY <1>1 DEF Query
<1>. HIDE DEF r
<1>4. query[q].att \in [Attempts -> {"none", "waits", "asks"}] BY <1>1 DEF Query
<1>5. Working(r) = Working(query[q]) BY <1>1, <1>2, <1>3, <1>4 DEF Working
<1>6. Accounted(r) BY <1>3, <1>5 DEF BootInv, QueryInv, Accounted
<1>7. /\ query' \in [Askers -> Query] /\ QueryInv' /\ query'[q].pc = query[q].pc
      /\ \A p \in Askers \ {q} : query'[p] = query[p]
  BY <1>2, <1>3, <1>6, QuerySet DEF BootInv, BootTypeOK
<1>8. MarkInv' BY <1>2, <1>7, MarkKept DEF BootInv, MarkInv
<1>. QED BY <1>2, <1>7, <1>8 DEF BootInv, BootTypeOK

\* A result is sent: its attempt is no more, and out holds one more.
LEMMA SendsStep ==
  ASSUME BootInv, NEW q \in Askers, NEW a \in Attempts,
         NEW result \in Zones \cup {<<>>}, Sends(q, a, result)
  PROVE  BootInv'
<1>. DEFINE r == [query[q] EXCEPT !.att[a] = "none", !.out = Append(@, result)]
            w == Working(query[q])
<1>1. query[q] \in Query BY DEF BootInv, BootTypeOK
<1>2. query[q].att[a] = "asks" /\ Becomes(q, r) /\ UNCHANGED <<kept, ips, marked, lookup, zone, calm>>
  BY DEF Sends
<1>3. /\ query[q].att \in [Attempts -> {"none", "waits", "asks"}]
      /\ query[q].out \in Seq(Zones \cup {<<>>})
      /\ query[q].left \in 0..Cardinality(Attempts)
  BY <1>1 DEF Query
<1>4. Append(query[q].out, result) \in Seq(Zones \cup {<<>>})
      /\ Len(Append(query[q].out, result)) = Len(query[q].out) + 1
      /\ Len(query[q].out) \in Nat
  BY <1>3
<1>5. r.pc = query[q].pc /\ r.left = query[q].left /\ r.out = Append(query[q].out, result)
      /\ r.att = [query[q].att EXCEPT ![a] = "none"]
  BY <1>1 DEF Query
<1>6. r \in Query BY <1>1, <1>4 DEF Query
<1>. HIDE DEF r
<1>7. Working(r) = w \ {a} /\ a \in w BY <1>2, <1>3, <1>5 DEF Working
<1>8. w \in SUBSET Attempts BY DEF Working
<1>. HIDE DEF w
<1>9. IsFiniteSet(w) /\ Cardinality(w) \in Nat BY <1>8, AttemptsFinite
<1>10. Cardinality(Working(r)) = Cardinality(w) - 1 BY <1>7, <1>9, FS_RemoveElement
<1>11. Accounted(query[q]) BY DEF BootInv, QueryInv
<1>12. Accounted(r) BY <1>3, <1>4, <1>5, <1>9, <1>10, <1>11 DEF Accounted, w
<1>13. /\ query' \in [Askers -> Query] /\ QueryInv' /\ query'[q].pc = query[q].pc
      /\ \A p \in Askers \ {q} : query'[p] = query[p]
  BY <1>2, <1>5, <1>6, <1>12, QuerySet DEF BootInv, BootTypeOK
<1>14. MarkInv' BY <1>2, <1>13, MarkKept DEF BootInv, MarkInv
<1>. QED BY <1>2, <1>13, <1>14 DEF BootInv, BootTypeOK

LEMMA TimesOutStep ==
  ASSUME BootInv, NEW q \in Askers, TimesOut(q)
  PROVE  BootInv'
<1>. DEFINE r == [query[q] EXCEPT !.over = TRUE]
<1>1. query[q] \in Query BY DEF BootInv, BootTypeOK
<1>2. Becomes(q, r) /\ UNCHANGED <<kept, ips, marked, lookup, zone, calm>>
  BY DEF TimesOut
<1>3. r \in Query /\ r.pc = query[q].pc /\ r.left = query[q].left /\ r.out = query[q].out
      /\ r.att = query[q].att
  BY <1>1 DEF Query
<1>. HIDE DEF r
<1>4. Accounted(r) BY <1>3 DEF BootInv, QueryInv, Accounted, Working
<1>5. /\ query' \in [Askers -> Query] /\ QueryInv' /\ query'[q].pc = query[q].pc
      /\ \A p \in Askers \ {q} : query'[p] = query[p]
  BY <1>2, <1>3, <1>4, QuerySet DEF BootInv, BootTypeOK
<1>6. MarkInv' BY <1>2, <1>5, MarkKept DEF BootInv, MarkInv
<1>. QED BY <1>2, <1>5, <1>6 DEF BootInv, BootTypeOK

LEMMA OutNotEmpty ==
  ASSUME BootInv, NEW q \in Askers, Reads(q)
  PROVE  /\ query[q] \in Query /\ query[q].pc = "asking"
         /\ query[q].out \in Seq(Zones \cup {<<>>})
         /\ Len(query[q].out) \in Nat \ {0}
         /\ Head(query[q].out) \in Zones \cup {<<>>}
         /\ Tail(query[q].out) \in Seq(Zones \cup {<<>>})
         /\ Len(Tail(query[q].out)) = Len(query[q].out) - 1
         /\ query[q].left = Cardinality(Working(query[q])) + Len(query[q].out)
         /\ Cardinality(Working(query[q])) \in Nat /\ IsFiniteSet(Working(query[q]))
<1>1. query[q] \in Query /\ query[q].pc = "asking" /\ query[q].out # <<>>
  BY DEF BootInv, BootTypeOK, Reads
<1>2. query[q].out \in Seq(Zones \cup {<<>>}) BY <1>1 DEF Query
<1>3. Accounted(query[q]) BY DEF BootInv, QueryInv
<1>4. Working(query[q]) \in SUBSET Attempts BY DEF Working
<1>. QED BY <1>1, <1>2, <1>3, <1>4, AttemptsFinite, HeadTailProperties DEF Accounted

LEMMA ReceivesStep ==
  ASSUME BootInv, NEW q \in Askers, Receives(q)
  PROVE  BootInv'
<1>. DEFINE r == [query[q] EXCEPT !.pc = "store", !.over = TRUE, !.left = 0,
                                  !.out = Tail(@), !.found = Head(query[q].out)]
<1>1. Reads(q) /\ Becomes(q, r) /\ UNCHANGED <<kept, ips, marked, lookup, zone, calm>>
  BY DEF Receives
<1>2. query[q] \in Query /\ query[q].pc = "asking"
      /\ Head(query[q].out) \in Zones \cup {<<>>}
      /\ Tail(query[q].out) \in Seq(Zones \cup {<<>>})
  BY <1>1, OutNotEmpty
<1>3. 0 \in 0..Cardinality(Attempts) BY AttemptsFinite
<1>4. r \in Query /\ r.pc = "store"
  <2>. DEFINE h == Head(query[q].out)
              t == Tail(query[q].out)
  <2>1. r = [query[q] EXCEPT !.pc = "store", !.over = TRUE, !.left = 0, !.out = t, !.found = h]
    OBVIOUS
  <2>2. h \in Zones \cup {<<>>} /\ t \in Seq(Zones \cup {<<>>}) BY <1>2
  <2>. HIDE DEF h, t, r
  <2>. QED BY <1>2, <1>3, <2>1, <2>2 DEF Query
<1>. HIDE DEF r
<1>5. Accounted(r) BY <1>4 DEF Accounted
<1>6. /\ query' \in [Askers -> Query] /\ QueryInv' /\ query'[q].pc = "store"
      /\ \A p \in Askers \ {q} : query'[p] = query[p]
  BY <1>1, <1>4, <1>5, QuerySet DEF BootInv, BootTypeOK
<1>7. MarkInv' BY <1>1, <1>2, <1>6, MarkKept DEF BootInv
<1>. QED BY <1>1, <1>6, <1>7 DEF BootInv, BootTypeOK

LEMMA ReceivesFailureStep ==
  ASSUME BootInv, NEW q \in Askers, ReceivesFailure(q)
  PROVE  BootInv'
<1>. DEFINE r == [query[q] EXCEPT !.out = Tail(@), !.left = @ - 1]
<1>1. Reads(q) /\ query[q].left > 1 /\ Becomes(q, r)
      /\ UNCHANGED <<kept, ips, marked, lookup, zone, calm>>
  BY DEF ReceivesFailure
<1>2. query[q] \in Query /\ query[q].pc = "asking"
      /\ Tail(query[q].out) \in Seq(Zones \cup {<<>>})
      /\ Len(Tail(query[q].out)) = Len(query[q].out) - 1
      /\ query[q].left = Cardinality(Working(query[q])) + Len(query[q].out)
      /\ Cardinality(Working(query[q])) \in Nat /\ Len(query[q].out) \in Nat
  BY <1>1, OutNotEmpty
<1>3. query[q].left \in 0..Cardinality(Attempts) /\ Cardinality(Attempts) \in Nat
  BY <1>2, AttemptsFinite DEF Query
<1>4. query[q].left - 1 \in 0..Cardinality(Attempts) BY <1>1, <1>3
<1>5. r \in Query /\ r.pc = "asking" /\ r.att = query[q].att
      /\ r.out = Tail(query[q].out) /\ r.left = query[q].left - 1
  BY <1>2, <1>4 DEF Query
<1>. HIDE DEF r
<1>6. Working(r) = Working(query[q]) BY <1>5 DEF Working
<1>7. Accounted(r) BY <1>2, <1>5, <1>6 DEF Accounted
<1>8. /\ query' \in [Askers -> Query] /\ QueryInv' /\ query'[q].pc = "asking"
      /\ \A p \in Askers \ {q} : query'[p] = query[p]
  BY <1>1, <1>5, <1>7, QuerySet DEF BootInv, BootTypeOK
<1>9. MarkInv' BY <1>1, <1>2, <1>8, MarkKept DEF BootInv
<1>. QED BY <1>1, <1>8, <1>9 DEF BootInv, BootTypeOK

\* The state of the lookups after a step of Looks.
LEMMA LooksType ==
  ASSUME lookup \in [Callers -> Lookup], NEW c \in Callers, NEW from,
         NEW to \in {"idle", "look", "refresh", "query", "done"},
         NEW list \in Zones \cup {<<>>}, Looks(c, from, to, list)
  PROVE  lookup' \in [Callers -> Lookup]
<1>1. [pc |-> to, ips |-> list] \in Lookup BY DEF Lookup
<1>. QED BY <1>1 DEF Looks

LEMMA NoneAnsweredStep ==
  ASSUME BootInv, NEW q \in Askers, NoneAnswered(q)
  PROVE  BootInv'
<1>. DEFINE r == [NoQuery EXCEPT !.pc = IF q \in Refreshers THEN "unmark" ELSE "idle"]
<1>1. Reads(q) /\ Becomes(q, r) /\ UNCHANGED <<kept, ips, marked, zone, calm>>
      /\ IF q \in Callers THEN Looks(q, "query", "done", <<>>) ELSE UNCHANGED lookup
  BY DEF NoneAnswered
<1>2. query[q].pc = "asking" BY <1>1, OutNotEmpty
<1>3. r \in Query /\ r.pc = (IF q \in Refreshers THEN "unmark" ELSE "idle")
  BY NoQueryType DEF Query
<1>. HIDE DEF r
<1>4. Accounted(r) BY <1>3 DEF Accounted
<1>5. /\ query' \in [Askers -> Query] /\ QueryInv' /\ query'[q].pc = r.pc
      /\ \A p \in Askers \ {q} : query'[p] = query[p]
  BY <1>1, <1>3, <1>4, QuerySet DEF BootInv, BootTypeOK
<1>6. q \in Callers => q \notin Refreshers BY BootstrapAssumption
<1>7. MarkInv' BY <1>1, <1>2, <1>3, <1>5, <1>6, MarkKept DEF BootInv
<1>8. lookup' \in [Callers -> Lookup]
  BY <1>1, LooksType DEF BootInv, BootTypeOK
<1>. QED BY <1>1, <1>5, <1>7, <1>8 DEF BootInv, BootTypeOK

LEMMA StoreStep ==
  ASSUME BootInv, NEW q \in Askers, Store(q)
  PROVE  BootInv'
<1>. DEFINE r == [query[q] EXCEPT !.pc = IF q \in Refreshers THEN "unmark" ELSE "idle",
                                  !.found = <<>>]
<1>1. query[q] \in Query /\ query[q].found \in Zones \cup {<<>>}
  BY DEF BootInv, BootTypeOK, Query
<1>2. /\ query[q].pc = "store" /\ kept' = "fresh" /\ ips' = query[q].found
      /\ Becomes(q, r) /\ UNCHANGED <<marked, zone, calm>>
      /\ IF q \in Callers THEN Looks(q, "query", "done", query[q].found) ELSE UNCHANGED lookup
  BY DEF Store
<1>3. r \in Query /\ r.pc = (IF q \in Refreshers THEN "unmark" ELSE "idle")
  BY <1>1 DEF Query
<1>. HIDE DEF r
<1>4. Accounted(r) BY <1>3 DEF Accounted
<1>5. /\ query' \in [Askers -> Query] /\ QueryInv' /\ query'[q].pc = r.pc
      /\ \A p \in Askers \ {q} : query'[p] = query[p]
  BY <1>2, <1>3, <1>4, QuerySet DEF BootInv, BootTypeOK
<1>6. q \in Callers => q \notin Refreshers BY BootstrapAssumption
<1>7. MarkInv' BY <1>2, <1>3, <1>5, <1>6, MarkKept DEF BootInv
<1>8. lookup' \in [Callers -> Lookup]
  BY <1>1, <1>2, LooksType DEF BootInv, BootTypeOK
<1>. QED BY <1>1, <1>2, <1>5, <1>7, <1>8 DEF BootInv, BootTypeOK

\* The mark is taken away by the one refresher that runs.
LEMMA UnmarkStep ==
  ASSUME BootInv, NEW q \in Askers, Unmark(q)
  PROVE  BootInv'
<1>. DEFINE r == [query[q] EXCEPT !.pc = "idle"]
<1>1. query[q].pc = "unmark" /\ marked' = FALSE /\ Becomes(q, r)
      /\ UNCHANGED <<kept, ips, lookup, zone, calm>>
  BY DEF Unmark
<1>2. r \in Query /\ r.pc = "idle" BY DEF BootInv, BootTypeOK, Query
<1>. HIDE DEF r
<1>3. Accounted(r) BY <1>2 DEF Accounted
<1>4. /\ query' \in [Askers -> Query] /\ QueryInv' /\ query'[q].pc = "idle"
      /\ \A p \in Askers \ {q} : query'[p] = query[p]
  BY <1>1, <1>2, <1>3, QuerySet DEF BootInv, BootTypeOK
<1>5. q \in Refreshers /\ q \notin Callers
  BY <1>1 DEF BootInv, MarkInv, Askers
<1>6. \A s \in Refreshers \ {q} : query[s].pc = "idle"
  BY <1>1, <1>5 DEF BootInv, MarkInv
<1>7. \A s \in Refreshers : query'[s].pc = "idle"
  BY <1>4, <1>6 DEF Askers
<1>8. \A c \in Callers : query'[c].pc # "unmark"
  BY <1>4, <1>5 DEF BootInv, MarkInv, Askers
<1>9. MarkInv' BY <1>1, <1>7, <1>8 DEF MarkInv
<1>. QED BY <1>1, <1>4, <1>9 DEF BootInv, BootTypeOK

\* A caller's own steps, and what the world does.
LEMMA CallerStepInv ==
  ASSUME BootInv, NEW c \in Callers, CallerStep(c)
  PROVE  BootInv'
<1>. c \in Askers /\ c \notin Refreshers BY BootstrapAssumption DEF Askers
<1>1. ips \in Zones \cup {<<>>} /\ lookup[c].ips \in Zones \cup {<<>>} /\ <<>> \in Zones \cup {<<>>}
  BY DEF BootInv, BootTypeOK, Lookup
<1>2. ASSUME NEW from, NEW to \in {"idle", "look", "refresh", "query", "done"},
             NEW list \in Zones \cup {<<>>}, Looks(c, from, to, list),
             UNCHANGED <<kept, ips, marked, query, zone, calm>>
      PROVE  BootInv'
  <2>1. lookup' \in [Callers -> Lookup] BY <1>2, LooksType DEF BootInv, BootTypeOK
  <2>. QED BY <2>1, <1>2 DEF BootInv, BootTypeOK, MarkInv, QueryInv, Accounted, Working
<1>3. CASE LookFresh(c) BY <1>1, <1>2, <1>3 DEF LookFresh
<1>4. CASE LookStale(c) BY <1>1, <1>2, <1>4 DEF LookStale
<1>5. CASE AlreadyRefreshing(c) BY <1>1, <1>2, <1>5 DEF AlreadyRefreshing
<1>6. CASE LookUnknown(c)
  <2>1. Looks(c, "look", "query", <<>>) /\ Becomes(c, Started) /\ UNCHANGED <<kept, ips, marked, zone, calm>>
    BY <1>6 DEF LookUnknown
  <2>2. lookup' \in [Callers -> Lookup] BY <1>1, <2>1, LooksType DEF BootInv, BootTypeOK
  <2>3. /\ query' \in [Askers -> Query] /\ QueryInv' /\ query'[c].pc = "asking"
        /\ \A p \in Askers \ {c} : query'[p] = query[p]
    BY <2>1, StartedType, QuerySet DEF BootInv, BootTypeOK
  <2>4. MarkInv' BY <2>1, <2>3, MarkKept DEF BootInv
  <2>. QED BY <2>1, <2>2, <2>3, <2>4 DEF BootInv, BootTypeOK
<1>7. CASE Refresh(c)
  <2>. DEFINE r == CHOOSE r \in Refreshers : Over(query[r])
  <2>1. /\ ~marked /\ marked' = TRUE /\ Looks(c, "refresh", "done", lookup[c].ips)
        /\ Becomes(r, Started) /\ UNCHANGED <<kept, ips, zone, calm>>
        /\ \E x \in Refreshers : Over(query[x])
    BY <1>7 DEF Refresh
  <2>2. r \in Refreshers /\ r \in Askers BY <2>1 DEF Askers
  <2>. HIDE DEF r
  <2>3. lookup' \in [Callers -> Lookup] BY <1>1, <2>1, LooksType DEF BootInv, BootTypeOK
  <2>4. /\ query' \in [Askers -> Query] /\ QueryInv' /\ query'[r].pc = "asking"
        /\ \A p \in Askers \ {r} : query'[p] = query[p]
    BY <2>1, <2>2, StartedType, QuerySet DEF BootInv, BootTypeOK
  <2>5. \A s \in Refreshers : query'[s].pc # "idle" <=> s = r
    BY <2>1, <2>2, <2>4 DEF BootInv, MarkInv, Askers
  <2>6. \A d \in Callers : query'[d].pc # "unmark"
    BY <2>2, <2>4, BootstrapAssumption DEF BootInv, MarkInv, Askers
  <2>7. MarkInv' BY <2>1, <2>2, <2>5, <2>6 DEF MarkInv
  <2>. QED BY <2>1, <2>3, <2>4, <2>7 DEF BootInv, BootTypeOK
<1>. QED BY <1>3, <1>4, <1>5, <1>6, <1>7 DEF CallerStep

LEMMA AskerStepInv ==
  ASSUME BootInv, NEW q \in Askers, AskerStep(q)
  PROVE  BootInv'
<1>1. zone \in Zones \cup {<<>>} /\ <<>> \in Zones \cup {<<>>}
  BY DEF BootInv, BootTypeOK
<1>2. ASSUME NEW s \in Servers, TcpStarts(q, s) PROVE BootInv'
  BY <1>2, TcpStep
<1>3. ASSUME NEW a \in Attempts, Answers(q, a) \/ Fails(q, a) PROVE BootInv'
  BY <1>1, <1>3, SendsStep DEF Answers, Fails
<1>. QED BY <1>2, <1>3, TimesOutStep, ReceivesStep, ReceivesFailureStep, NoneAnsweredStep,
            StoreStep, UnmarkStep DEF AskerStep

LEMMA WorldStepInv ==
  ASSUME BootInv, Expire \/ ZoneChanges \/ UNCHANGED bootVars
  PROVE  BootInv'
BY DEF BootInv, BootTypeOK, MarkInv, QueryInv, Accounted, Working, Expire, ZoneChanges, bootVars
-----------------------------------------------------------------------------
(* The composition. *)

Inv == BootInv /\ RaceTypeOK /\ RaceInv /\ TypeOK

LEMMA BeginLookupInv ==
  ASSUME BootInv, NEW c \in Callers, BeginLookup(c)
  PROVE  BootInv'
<1>1. lookup' \in [Callers -> Lookup] BY LooksType DEF BeginLookup, BootInv, BootTypeOK
<1>. QED BY <1>1 DEF BeginLookup, BootInv, BootTypeOK, MarkInv, QueryInv, Accounted, Working

LEMMA GotTargetsInv ==
  ASSUME Inv, GotTargets
  PROVE  BootInv' /\ RaceTypeOK' /\ RaceInv'
<1>1. Dial \in Callers BY ConnectAssumption
<1>2. Looks(Dial, "done", "idle", <<>>) /\ UNCHANGED <<kept, ips, marked, query, zone, calm>>
  BY DEF GotTargets
<1>3. BootInv'
  <2>1. lookup' \in [Callers -> Lookup]
    BY <1>1, <1>2, LooksType DEF Inv, BootInv, BootTypeOK
  <2>. QED BY <1>2, <2>1 DEF Inv, BootInv, BootTypeOK, MarkInv, QueryInv, Accounted, Working
<1>. DEFINE list == lookup[Dial].ips
<1>4. list \in Seq(Addresses) /\ Len(list) <= MaxTargets /\ DOMAIN list = 1..Len(list)
  <2>1. list \in Zones \cup {<<>>} BY <1>1 DEF Inv, BootInv, BootTypeOK, Lookup
  <2>2. CASE list = <<>>
    <3>1. <<>> \in Seq(Addresses) /\ Len(<<>>) = 0 /\ DOMAIN <<>> = 1..Len(<<>>) OBVIOUS
    <3>. QED BY <2>2, <3>1, DialRaceAssumption
  <2>. HIDE DEF list
  <2>3. CASE list \in Zones BY <2>3, ConnectAssumption
  <2>. QED BY <2>1, <2>2, <2>3
<1>5. PICK order \in [DOMAIN list -> DOMAIN list] : Launch([i \in DOMAIN list |-> list[order[i]]])
  BY DEF GotTargets
<1>. HIDE DEF list
<1>. DEFINE n == Len(list)
            ordered == [i \in 1..n |-> list[order[i]]]
<1>6. n \in Nat /\ n <= MaxTargets BY <1>4
<1>7. \A i \in 1..n : list[order[i]] \in Addresses BY <1>4
<1>8. Launch(ordered) BY <1>4, <1>5
<1>9. ordered \in Seq(Addresses) /\ Len(ordered) = n
  <2>. HIDE DEF n
  <2>. QED BY <1>6, <1>7, IsASeq
<1>. HIDE DEF ordered, n
<1>10. Len(ordered) <= MaxTargets BY <1>6, <1>9
<1>11. RaceTypeOK' /\ RaceInv' BY <1>8, <1>9, <1>10, LaunchStep
<1>. QED BY <1>3, <1>11

LEMMA InvStep ==
  ASSUME Inv, [Next]_vars
  PROVE  Inv'
<1>. USE DEF Inv
<1>0. TypeOK => /\ preferred \in Addresses \cup {Nowhere} /\ alive \in Addresses \cup {Nowhere}
  BY DEF TypeOK
<1>. DEFINE Rest == preferred' \in Addresses \cup {Nowhere} /\ alive' \in Addresses \cup {Nowhere}
<1>1. SUFFICES BootInv' /\ RaceTypeOK' /\ RaceInv' /\ Rest
  BY DEF TypeOK, BootInv
<1>2. CASE BeginDial
  <2>1. BeginLookup(Dial) /\ UNCHANGED <<preferred, alive>> /\ Dial \in Callers
    BY <1>2, ConnectAssumption DEF BeginDial
  <2>. QED BY <1>0, <1>2, <2>1, BeginLookupInv, ResetStep
<1>3. CASE GotTargets
  BY <1>0, <1>3, GotTargetsInv DEF GotTargets
<1>4. ASSUME NEW i \in Places, Win(i) PROVE BootInv' /\ RaceTypeOK' /\ RaceInv' /\ Rest
  <2>1. BootInv' BY <1>4, WorldStepInv DEF Win
  <2>2. RaceTypeOK' /\ RaceInv' BY <1>4, WinnerStep DEF Win
  <2>3. i <= Len(targets) /\ hand[i] = "up"
    BY <1>4, RaceTypes DEF Win, ReceiveWinner, RaceInv
  <2>4. targets[i] \in Addresses BY <2>3 DEF RaceTypeOK, Places
  <2>. QED BY <1>0, <1>4, <2>1, <2>2, <2>4 DEF Win
<1>5. ASSUME NEW i \in Places, NEW r \in {"up", "refused"}, Handshake(i, r)
      PROVE  BootInv' /\ RaceTypeOK' /\ RaceInv' /\ Rest
  BY <1>0, <1>5, WorldStepInv, HandshakeStep DEF Handshake
<1>6. CASE RaceStep
  <2>1. BootInv' BY <1>6, WorldStepInv DEF RaceStep
  <2>2. RaceTypeOK' /\ RaceInv'
    BY <1>6, TickStep, FailureLaunchesStep, CountStep, DrainStep DEF RaceStep
  <2>. QED BY <1>0, <1>6, <2>1, <2>2 DEF RaceStep
<1>7. CASE BootStep
  <2>1. RaceTypeOK' /\ RaceInv' BY <1>7, RaceUnchanged DEF BootStep
  <2>2. BootInv'
    BY <1>7, AskerStepInv, CallerStepInv, WorldStepInv, ConnectAssumption DEF BootStep
  <2>. QED BY <1>0, <1>7, <2>1, <2>2 DEF BootStep
<1>8. CASE Calms
  <2>1. /\ calm' = TRUE /\ UNCHANGED <<kept, ips, marked, query, lookup, zone, raceVars, preferred>>
        /\ \E i \in DOMAIN zone : alive' = zone[i]
    BY <1>8 DEF Calms
  <2>2. RaceTypeOK' /\ RaceInv' BY <2>1, RaceUnchanged
  <2>3. BootInv' BY <2>1 DEF BootInv, BootTypeOK, MarkInv, QueryInv, Accounted, Working
  <2>4. zone \in Seq(Addresses) BY ConnectAssumption DEF BootInv, BootTypeOK
  <2>5. alive' \in Addresses BY <2>1, <2>4
  <2>. QED BY <1>0, <2>1, <2>2, <2>3, <2>5
<1>9. CASE UNCHANGED vars
  BY <1>0, <1>9, WorldStepInv, RaceUnchanged DEF vars
<1>. QED BY <1>2, <1>3, <1>4, <1>5, <1>6, <1>7, <1>8, <1>9 DEF Next, Race

LEMMA InitInv == Init => Inv
<1>. SUFFICES ASSUME Init PROVE Inv OBVIOUS
<1>1. /\ kept = "unknown" /\ ips = <<>> /\ marked = FALSE
      /\ query = [q \in Askers |-> NoQuery]
      /\ lookup = [c \in Callers |-> [pc |-> "idle", ips |-> <<>>]]
      /\ zone \in Zones /\ calm = FALSE
      /\ targets = <<>> /\ hand = [i \in Places |-> "waiting"] /\ next = 0 /\ pending = 0
      /\ state = "idle" /\ winner = 0 /\ left = 0
      /\ preferred = Nowhere /\ alive = Nowhere
  BY DEF Init, BootInit, RaceInit
<1>2. lookup \in [Callers -> Lookup] BY <1>1 DEF Lookup
<1>3. query \in [Askers -> Query] /\ QueryInv BY <1>1, NoQueryType DEF QueryInv
<1>4. \A q \in Askers : query[q].pc = "idle" BY <1>1 DEF NoQuery
<1>5. MarkInv BY <1>1, <1>4 DEF MarkInv, Askers
<1>6. BootTypeOK BY <1>1, <1>2, <1>3 DEF BootTypeOK
<1>7. RaceTypeOK BY <1>1, DialRaceAssumption DEF RaceTypeOK
<1>8. RaceInv
  <2>1. \A i \in Places : i > 0 BY DEF Places
  <2>2. Len(<<>>) = 0 OBVIOUS
  <2>. QED BY <1>1, <2>1, <2>2 DEF RaceInv
<1>. QED BY <1>1, <1>3, <1>5, <1>6, <1>7, <1>8 DEF Inv, BootInv, TypeOK

LEMMA AlwaysInv == Spec => []Inv
BY InitInv, InvStep, PTL DEF Spec

\* The types, and the mark: it stands exactly as long as one goroutine refreshes, so
\* old addresses are replaced in the end and never by two refreshes at once
\* (bootstrap.go:49-58, 127-146).
THEOREM StaysConsistent == Spec => []Consistent
<1>1. Inv => Consistent
  <2>. SUFFICES ASSUME Inv PROVE RefreshIsMarked BY DEF Inv, Consistent
  <2>. DEFINE R == {r \in Refreshers : query[r].pc # "idle"}
  <2>1. CASE marked
    <3>1. PICK r \in Refreshers : \A s \in Refreshers : query[s].pc # "idle" <=> s = r
      BY <2>1 DEF Inv, BootInv, MarkInv
    <3>2. R = {r} BY <3>1
    <3>. QED BY <2>1, <3>2, FS_Singleton DEF RefreshIsMarked
  <2>2. CASE ~marked
    <3>1. R = {} BY <2>2 DEF Inv, BootInv, MarkInv
    <3>. QED BY <2>2, <3>1, FS_EmptySet DEF RefreshIsMarked
  <2>. QED BY <2>1, <2>2
<1>. QED BY <1>1, AlwaysInv, PTL

\* When drainDials has received what it waits for, no handshake runs and no
\* connection but the winner's is open (doq.go:304-306, 327-333).
THEOREM NoneStaysBehind == Spec => []NoneLeftBehind
<1>1. Inv => NoneLeftBehind
  <2>. SUFFICES ASSUME Inv, state = "won", left = 0
                PROVE  /\ hand[winner] = "used"
                       /\ \A i \in Places : i # winner => hand[i] \in {"waiting", "counted", "closed"}
    BY DEF NoneLeftBehind
  <2>1. /\ Cardinality(Awaited) = 0 /\ winner \in Places
        /\ \A i \in Places : hand[i] = "used" <=> i = winner
    BY DEF Inv, RaceInv
  <2>2. Awaited \in SUBSET Places BY DEF Awaited
  <2>3. Awaited = {} BY <2>1, <2>2, SomePlaces, FS_EmptySet
  <2>4. \A i \in Places : hand[i] \notin {"dialing", "up", "refused"} BY <2>3 DEF Awaited
  <2>5. hand \in [Places -> {"waiting", "dialing", "up", "refused", "used", "counted", "closed"}]
    BY DEF Inv, RaceTypeOK
  <2>. QED BY <2>1, <2>4, <2>5
<1>. QED BY <1>1, AlwaysInv, PTL

\* connect fails only when every address was tried and failed (doq.go:309-317).
THEOREM FailsLast == Spec => []FailsOnlyAfterAll
<1>1. Inv => FailsOnlyAfterAll
  <2>. SUFFICES ASSUME Inv, state = "failed", NEW i \in 1..Len(targets) PROVE hand[i] = "counted"
    BY DEF FailsOnlyAfterAll
  <2>1. /\ next = Len(targets) /\ Awaited = {}
        /\ \A j \in Places : hand[j] = "waiting" <=> j > next
        /\ \A j \in Places : hand[j] \notin {"used", "closed"}
    BY DEF Inv, RaceInv
  <2>2. i \in Places /\ ~(i > next) BY <2>1, RaceTypes DEF Inv
  <2>3. hand[i] \notin {"dialing", "up", "refused"} BY <2>1, <2>2 DEF Awaited
  <2>4. hand[i] \in {"waiting", "dialing", "up", "refused", "used", "counted", "closed"}
    BY <2>2 DEF Inv, RaceTypeOK
  <2>. QED BY <2>1, <2>2, <2>3, <2>4
<1>. QED BY <1>1, AlwaysInv, PTL

\* Where a step of one query leaves the others.
LEMMA PcSet ==
  ASSUME query \in [Askers -> Query], NEW p \in Askers, NEW r, Becomes(p, r)
  PROVE  \A q \in Askers : query'[q].pc = IF q = p THEN r.pc ELSE query[q].pc
BY DEF Becomes, Over, NoQuery

\* Only NoneAnswered gives a query up.
LEMMA GivesUp ==
  ASSUME BootInv, NEW p \in Askers, AskerStep(p), NEW q \in Askers,
         query[q].pc = "asking", query'[q].pc \in {"idle", "unmark"}
  PROVE  NoneAnswered(q)
<1>. DEFINE r0 == query[p]
<1>1. r0 \in Query /\ query \in [Askers -> Query] BY DEF BootInv, BootTypeOK
<1>2. ASSUME NEW r, Becomes(p, r), r.pc = r0.pc PROVE FALSE
  BY <1>1, <1>2, PcSet
<1>3. ASSUME r0.pc # "asking", NEW r, Becomes(p, r) PROVE FALSE
  BY <1>1, <1>3, PcSet
<1>4. ASSUME NEW s \in Servers, TcpStarts(p, s) PROVE FALSE
  <2>1. [r0 EXCEPT !.att[<<s, "tcp">>] = "asks"].pc = r0.pc BY <1>1 DEF Query
  <2>. QED BY <1>2, <1>4, <2>1 DEF TcpStarts
<1>5. ASSUME NEW a \in Attempts, NEW x, Sends(p, a, x) PROVE FALSE
  <2>1. [r0 EXCEPT !.att[a] = "none", !.out = Append(@, x)].pc = r0.pc BY <1>1 DEF Query
  <2>. QED BY <1>2, <1>5, <2>1 DEF Sends
<1>6. CASE TimesOut(p)
  <2>1. [r0 EXCEPT !.over = TRUE].pc = r0.pc BY <1>1 DEF Query
  <2>. QED BY <1>2, <1>6, <2>1 DEF TimesOut
<1>7. CASE Receives(p)
  <2>. DEFINE r == [r0 EXCEPT !.pc = "store", !.over = TRUE, !.left = 0,
                              !.out = Tail(@), !.found = Head(query[p].out)]
  <2>1. r.pc = "store" BY <1>1 DEF Query
  <2>2. Becomes(p, r) BY <1>7 DEF Receives
  <2>. HIDE DEF r
  <2>. QED BY <1>1, <2>1, <2>2, PcSet
<1>8. CASE ReceivesFailure(p)
  <2>1. [r0 EXCEPT !.out = Tail(@), !.left = @ - 1].pc = r0.pc BY <1>1 DEF Query
  <2>. QED BY <1>2, <1>8, <2>1 DEF ReceivesFailure
<1>9. CASE NoneAnswered(p)
  <2>1. q = p
    <3>. SUFFICES ASSUME q # p PROVE FALSE OBVIOUS
    <3>1. query'[q].pc = query[q].pc BY <1>1, <1>9, PcSet DEF NoneAnswered
    <3>. QED BY <3>1
  <2>. QED BY <1>9, <2>1
<1>10. CASE Store(p) BY <1>3, <1>10 DEF Store
<1>11. CASE Unmark(p) BY <1>3, <1>11 DEF Unmark
<1>. QED BY <1>4, <1>5, <1>6, <1>7, <1>8, <1>9, <1>10, <1>11 DEF AskerStep, Answers, Fails

LEMMA CallersGiveNothingUp ==
  ASSUME BootInv, NEW c \in Callers, CallerStep(c), NEW q \in Askers,
         query[q].pc = "asking"
  PROVE  query'[q].pc = "asking"
<1>. c \in Askers BY DEF Askers
<1>1. query \in [Askers -> Query] BY DEF BootInv, BootTypeOK
<1>2. CASE LookUnknown(c)
  BY <1>1, <1>2, PcSet, StartedType DEF LookUnknown
<1>3. CASE Refresh(c)
  <2>. DEFINE r == CHOOSE r \in Refreshers : Over(query[r])
  <2>1. r \in Askers /\ Becomes(r, Started) BY <1>3 DEF Refresh, Askers
  <2>. HIDE DEF r
  <2>. QED BY <1>1, <2>1, PcSet, StartedType
<1>4. CASE LookFresh(c) \/ LookStale(c) \/ AlreadyRefreshing(c)
  BY <1>4 DEF LookFresh, LookStale, AlreadyRefreshing
<1>. QED BY <1>2, <1>3, <1>4 DEF CallerStep

\* A lookup is given up only when every server has failed over both protocols and
\* every result was received (bootstrap.go:176-191).
THEOREM LookupFailsLast == Spec => LookupFailsOnlyAfterAll
<1>. DEFINE Step == \A q \in Askers :
                      query[q].pc = "asking" /\ query'[q].pc \in {"idle", "unmark"} =>
                        Ended(query[q]) /\ Len(query[q].out) = 1
<1>1. ASSUME Inv, Next, NEW q \in Askers,
             query[q].pc = "asking", query'[q].pc \in {"idle", "unmark"}
      PROVE  NoneAnswered(q)
  <2>. BootInv BY <1>1 DEF Inv
  <2>1. ASSUME query' = query PROVE FALSE BY <1>1, <2>1
  <2>2. CASE BootStep
    <3>1. Dial \in Callers BY ConnectAssumption
    <3>2. CASE CallerStep(Dial) BY <1>1, <3>1, <3>2, CallersGiveNothingUp
    <3>3. CASE Expire \/ ZoneChanges BY <2>1, <3>3 DEF Expire, ZoneChanges
    <3>4. ASSUME NEW p \in Askers, AskerStep(p) PROVE NoneAnswered(q)
      BY <1>1, <3>4, GivesUp
    <3>. QED BY <2>2, <3>2, <3>3, <3>4 DEF BootStep
  <2>3. CASE BeginDial BY <2>1, <2>3 DEF BeginDial, BeginLookup
  <2>4. CASE GotTargets BY <2>1, <2>4 DEF GotTargets
  <2>5. CASE RaceStep BY <2>1, <2>5 DEF RaceStep, bootVars
  <2>6. CASE Calms BY <2>1, <2>6 DEF Calms
  <2>7. ASSUME NEW i \in Places, Race(i) PROVE FALSE
    BY <2>1, <2>7 DEF Race, Win, Handshake, bootVars
  <2>. QED BY <1>1, <2>2, <2>3, <2>4, <2>5, <2>6, <2>7 DEF Next
<1>2. ASSUME Inv, NEW q \in Askers, NoneAnswered(q)
      PROVE  Ended(query[q]) /\ Len(query[q].out) = 1
  <2>. DEFINE held == Len(query[q].out)
              working == Cardinality(Working(query[q]))
  <2>0. BootInv /\ Reads(q) /\ query[q].left = 1 BY <1>2 DEF Inv, NoneAnswered
  <2>1. /\ held \in Nat \ {0} /\ working \in Nat /\ query[q].left = working + held
        /\ IsFiniteSet(Working(query[q]))
    BY <2>0, OutNotEmpty
  <2>2. held = 1 /\ working = 0
    <3>. HIDE DEF held, working
    <3>. QED BY <2>0, <2>1
  <2>3. Working(query[q]) = {} BY <2>1, <2>2, FS_EmptySet
  <2>. QED BY <2>2, <2>3 DEF Ended, Working
<1>3. Inv /\ [Next]_vars => [Step]_vars
  BY <1>1, <1>2
<1>. QED BY <1>3, AlwaysInv, PTL DEF Spec, LookupFailsOnlyAfterAll
=============================================================================
