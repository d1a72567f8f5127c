---------------------------- MODULE Picker_proof ----------------------------
(***************************************************************************)
(* Proofs about the pool of upstreams: the books of a round, the turn of   *)
(* the reserves, and what a query leaves behind in the order of the others.*)
(***************************************************************************)
EXTENDS Picker, FiniteSetTheorems, TLAPS

-----------------------------------------------------------------------------
(* The parts of the inductive invariant. *)

\* The order of a round asks nobody twice.
NobodyTwice(order) == \A i, j \in Ups : order[i] = order[j] => i = j

Asked(r) == {r.order[i] : i \in 1..r.next - 1}

\* A reserve was asked, so the primaries before it have been heard.
Reserved(r) ==
  \A i, j \in 1..r.next - 1 :
    i < j /\ Fallback(r.order[j]) /\ ~Fallback(r.order[i]) => r.order[i] \notin r.running

\* The books of a round: who was asked, who runs, who gave a useless answer.
Books(r) ==
  /\ NobodyTwice(r.order)
  /\ r.running \cup r.softs \subseteq Asked(r) /\ r.running \cap r.softs = {}
  /\ r.pending = Cardinality(r.running)
  /\ Reserved(r)

Awaiting(r) == r.pc = "loop" => Books(r) /\ r.pending > 0

\* While a query settles, the losers are told apart from the useless, and those
\* that stood before the winner have a measurement or are still to be slowed.
Settling(r, measured) ==
  r.pc = "settle" =>
    /\ r.running \cap r.softs = {}
    /\ \A v \in Earlier(r, r.winner) \ r.slow : measured[v] # 0

\* Each startup probe slows each upstream once at most.
NotOver(probe) == {u \in Ups : probe[u] # "over"}
BootInv == \A v \in Ups : bootSlow[v] + Cardinality(NotOver(boot)) <= N

QueryInv == \A q \in Queries : Awaiting(query[q]) /\ Settling(query[q], rtt)

Inv == TypeOK /\ CooldownIsFailure /\ BootInv /\ QueryInv

-----------------------------------------------------------------------------
(* The order of a round is a permutation: Ahead is a strict order of all     *)
(* upstreams, so no two of them have the same number of others ahead, and    *)
(* every number of others ahead belongs to one.                              *)

LEMMA UpsFinite ==
  /\ N \in Nat /\ N > 0 /\ IsFiniteSet(Ups) /\ Cardinality(Ups) = N
<1>1. N \in Nat /\ N > 0 BY PickerAssumption DEF N
<1>2. 1 \in Int /\ N \in Int BY <1>1
<1>. QED BY <1>1, <1>2, FS_Interval DEF Ups

LEMMA SubsetFinite ==
  ASSUME NEW S \in SUBSET Ups
  PROVE  IsFiniteSet(S) /\ Cardinality(S) \in 0..N
<1>1. IsFiniteSet(S) /\ Cardinality(S) <= N BY UpsFinite, FS_Subset
<1>2. Cardinality(S) \in Nat BY <1>1, FS_CardinalityType
<1>. QED BY <1>1, <1>2, UpsFinite

LEMMA AheadOrders ==
  ASSUME TypeOK
  PROVE  /\ \A u \in Ups : ~Ahead(u, u)
         /\ \A u, v \in Ups : u # v => Ahead(u, v) \/ Ahead(v, u)
         /\ \A u, v, w \in Ups : Ahead(u, v) /\ Ahead(v, w) => Ahead(u, w)
<1>1. \A u \in Ups : rtt[u] \in Nat /\ u \in Int BY DEF TypeOK, Ups
<1>2. \A u \in Ups : Group(u) \in {0, 1, 2} BY DEF Group
<1>3. \A u \in Ups : Fallback(u) \in BOOLEAN BY DEF Fallback
<1>. QED BY <1>1, <1>2, <1>3 DEF Ahead

Rank == [u \in Ups |-> Cardinality({v \in Ups : Ahead(v, u)})]

LEMMA RankRange ==
  ASSUME TypeOK, NEW u \in Ups
  PROVE  Rank[u] \in 0..N - 1
<1>. DEFINE Before == {v \in Ups : Ahead(v, u)}
<1>1. Before \in SUBSET (Ups \ {u}) BY AheadOrders
<1>2. IsFiniteSet(Ups \ {u}) /\ Cardinality(Ups \ {u}) = N - 1 BY UpsFinite, FS_RemoveElement
<1>3. Cardinality(Before) <= N - 1 BY <1>1, <1>2, FS_Subset
<1>4. Cardinality(Before) \in 0..N BY <1>1, SubsetFinite
<1>. QED BY <1>3, <1>4, UpsFinite DEF Rank

LEMMA RanksDiffer ==
  ASSUME TypeOK, NEW u \in Ups, NEW w \in Ups, u # w
  PROVE  Rank[u] # Rank[w]
<1>. DEFINE Before(x) == {v \in Ups : Ahead(v, x)}
<1>1. \A x \in Ups : Before(x) \in SUBSET Ups OBVIOUS
<1>2. ASSUME NEW x \in Ups, NEW y \in Ups, Ahead(x, y) PROVE Rank[x] < Rank[y]
  <2>1. Before(x) \cup {x} \in SUBSET Before(y) BY <1>2, AheadOrders
  <2>2. x \notin Before(x) BY AheadOrders
  <2>3. IsFiniteSet(Before(x)) /\ IsFiniteSet(Before(y)) BY <1>1, SubsetFinite
  <2>4. Cardinality(Before(x) \cup {x}) = Cardinality(Before(x)) + 1
    BY <2>2, <2>3, FS_AddElement
  <2>5. Cardinality(Before(x) \cup {x}) <= Cardinality(Before(y)) BY <2>1, <2>3, FS_Subset
  <2>6. Cardinality(Before(x)) \in Nat /\ Cardinality(Before(y)) \in Nat
    BY <2>3, FS_CardinalityType
  <2>. QED BY <2>4, <2>5, <2>6 DEF Rank
<1>3. Rank[u] \in 0..N - 1 /\ Rank[w] \in 0..N - 1 BY RankRange
<1>. QED BY <1>2, <1>3, UpsFinite, AheadOrders

LEMMA OrderedPermutes ==
  ASSUME TypeOK
  PROVE  Ordered \in [Ups -> Ups] /\ NobodyTwice(Ordered)
<1>1. ASSUME NEW i \in Ups PROVE \E u \in Ups : Rank[u] = i - 1
  <2>. SUFFICES ASSUME \A u \in Ups : Rank[u] # i - 1 PROVE FALSE OBVIOUS
  <2>. DEFINE Others == (0..N - 1) \ {i - 1}
  <2>1. N \in Nat /\ N > 0 /\ i \in 1..N BY UpsFinite DEF Ups
  <2>2. 0 \in Int /\ N - 1 \in Int BY <2>1
  <2>3. IsFiniteSet(0..N - 1) /\ Cardinality(0..N - 1) = N BY <2>1, <2>2, FS_Interval
  <2>4. i - 1 \in 0..N - 1 BY <2>1
  <2>5. IsFiniteSet(Others) /\ Cardinality(Others) = N - 1 BY <2>3, <2>4, FS_RemoveElement
  <2>6. \A u \in Ups : Rank[u] \in 0..N - 1 BY RankRange
  <2>7. Rank \in [Ups -> Others] BY <2>6 DEF Rank
  <2>8. Cardinality(Others) < Cardinality(Ups) BY <2>1, <2>5, UpsFinite
  <2>9. \E x, y \in Ups : x # y /\ Rank[x] = Rank[y]
    <3>. HIDE DEF Others
    <3>. QED BY <2>5, <2>7, <2>8, UpsFinite, FS_PigeonHole
  <2>. QED BY <2>9, RanksDiffer
<1>. DEFINE Nth(i) == CHOOSE u \in Ups : Cardinality({v \in Ups : Ahead(v, u)}) = i - 1
<1>2. Ordered = [i \in Ups |-> Nth(i)] BY Zenon DEF Ordered
<1>3. ASSUME NEW i \in Ups PROVE Nth(i) \in Ups /\ Rank[Nth(i)] = i - 1
  <2>1. \E u \in Ups : Cardinality({v \in Ups : Ahead(v, u)}) = i - 1 BY <1>1 DEF Rank
  <2>2. Nth(i) \in Ups /\ Cardinality({v \in Ups : Ahead(v, Nth(i))}) = i - 1
    BY <2>1, Zenon
  <2>. HIDE DEF Nth
  <2>. QED BY <2>2 DEF Rank
<1>. HIDE DEF Nth
<1>4. Ordered \in [Ups -> Ups] BY <1>2, <1>3
<1>5. ASSUME NEW i \in Ups, NEW j \in Ups, Ordered[i] = Ordered[j] PROVE i = j
  <2>1. i - 1 = j - 1 BY <1>2, <1>3, <1>5
  <2>. QED BY <2>1, UpsFinite DEF Ups
<1>. QED BY <1>4, <1>5 DEF NobodyTwice

-----------------------------------------------------------------------------
(* What becomes of the books of a round. *)

LEMMA IdleType ==
  /\ Idle \in Query
  /\ \A p \in {"idle", "start", "loop", "settle", "done"}, n \in 0..2 :
       /\ [Idle EXCEPT !.pc = p] \in Query /\ [Idle EXCEPT !.pc = p].pc = p
       /\ [Idle EXCEPT !.pc = p, !.round = n] \in Query
       /\ [Idle EXCEPT !.pc = p, !.round = n].pc = p
<1>1. /\ [i \in Ups |-> i] \in [Ups -> Ups] /\ 1 \in 1..N + 1 /\ 0 \in 0..N
  BY UpsFinite DEF Ups
<1>2. Idle \in Query BY <1>1 DEF Idle, Query
<1>3. ASSUME NEW p \in {"idle", "start", "loop", "settle", "done"}, NEW n \in 0..2
      PROVE  /\ [Idle EXCEPT !.pc = p] \in Query /\ [Idle EXCEPT !.pc = p].pc = p
             /\ [Idle EXCEPT !.pc = p, !.round = n] \in Query
             /\ [Idle EXCEPT !.pc = p, !.round = n].pc = p
  BY <1>2 DEF Query
<1>. QED BY <1>2, <1>3

\* The upstream asked next was not asked before.
LEMMA LaunchKeeps ==
  ASSUME NEW r \in Query, r.pc = "loop", Books(r), MayLaunch(r)
  PROVE  /\ Launch(r) \in Query /\ Launch(r).pc = "loop"
         /\ Books(Launch(r)) /\ Launch(r).pending > 0
<1>. DEFINE u == r.order[r.next]
            s == Launch(r)
<1>1. /\ r.next \in Ups /\ r.next + 1 \in 1..N + 1 /\ r.order \in [Ups -> Ups]
      /\ r.running \in SUBSET Ups /\ N \in Nat
  <2>1. r.next <= N BY DEF MayLaunch
  <2>2. r.next \in 1..N + 1 /\ N \in Nat BY UpsFinite DEF Query
  <2>3. r.next \in Ups /\ r.next + 1 \in 1..N + 1 BY <2>1, <2>2 DEF Ups
  <2>. QED BY <2>2, <2>3 DEF Query
<1>2. u \in Ups BY <1>1
<1>3. \A i \in 1..r.next - 1 : i \in Ups /\ i # r.next BY <1>1 DEF Ups
<1>4. \A i \in 1..r.next - 1 : r.order[i] # u BY <1>1, <1>3 DEF Books, NobodyTwice
<1>5. u \notin Asked(r) BY <1>4 DEF Asked
<1>6. u \notin r.running /\ u \notin r.softs BY <1>5 DEF Books
<1>7. /\ s.pc = r.pc /\ s.order = r.order /\ s.next = r.next + 1 /\ s.softs = r.softs
      /\ s.running = r.running \cup {u} /\ s.pending = r.pending + 1
  BY DEF Launch, Query
<1>8. /\ IsFiniteSet(r.running) /\ Cardinality(r.running \cup {u}) = Cardinality(r.running) + 1
      /\ r.running \cup {u} \in SUBSET Ups
  BY <1>1, <1>2, <1>6, SubsetFinite, FS_AddElement
<1>9. Cardinality(r.running \cup {u}) \in 0..N BY <1>8, SubsetFinite
<1>10. s.pending = Cardinality(s.running) /\ s.pending \in 0..N BY <1>7, <1>8, <1>9 DEF Books
<1>11. s \in Query BY <1>1, <1>7, <1>8, <1>10 DEF Query, Launch
<1>12. s.pending > 0
  <2>1. r.pending \in 0..N BY DEF Query
  <2>. QED BY <1>1, <1>7, <2>1
<1>13. \A i \in 1..s.next - 1 : i \in 1..r.next - 1 \/ i = r.next
  BY <1>1, <1>7 DEF Ups
<1>14. Asked(r) \cup {u} \subseteq Asked(s)
  <2>1. \A i \in 1..r.next - 1 : i \in 1..s.next - 1 BY <1>1, <1>7 DEF Ups
  <2>2. r.next \in 1..s.next - 1 BY <1>1, <1>7 DEF Ups
  <2>. QED BY <1>7, <2>1, <2>2 DEF Asked
<1>15. ASSUME NEW i \in 1..s.next - 1, NEW j \in 1..s.next - 1,
              i < j, Fallback(s.order[j]), ~Fallback(s.order[i])
       PROVE  s.order[i] \notin s.running
  <2>1. i \in 1..r.next - 1
    <3>1. r.next \in Nat /\ i \in 1..r.next /\ j \in 1..r.next BY <1>1, <1>7 DEF Ups
    <3>. QED BY <3>1, <1>15
  <2>2. r.order[i] # u BY <1>4, <2>1
  <2>3. CASE j \in 1..r.next - 1 BY <1>7, <1>15, <2>1, <2>2, <2>3 DEF Books, Reserved
  <2>4. CASE j = r.next BY <1>7, <1>15, <2>2, <2>4 DEF MayLaunch
  <2>. QED BY <1>13, <2>3, <2>4
<1>16. Books(s)
  <2>1. Reserved(s) BY <1>15 DEF Reserved
  <2>. HIDE DEF s, u
  <2>. QED BY <1>6, <1>7, <1>10, <1>14, <2>1 DEF Books
<1>. QED BY <1>7, <1>11, <1>12, <1>16

LEMMA EndRoundKeeps ==
  ASSUME NEW r \in Query
  PROVE  EndRound(r) \in Query /\ EndRound(r).pc \in {"start", "done"}
<1>1. r.round < 2 => r.round + 1 \in 0..2 BY DEF Query
<1>2. [Idle EXCEPT !.pc = "done"] \in Query /\ [Idle EXCEPT !.pc = "done"].pc = "done"
  <2>1. 0 \in 0..2 OBVIOUS
  <2>. QED BY <2>1, IdleType
<1>3. CASE r.round < 2
  <2>1. LET s == [Idle EXCEPT !.pc = "start", !.round = r.round + 1]
        IN s \in Query /\ s.pc = "start"
    BY <1>1, <1>3, IdleType
  <2>. QED BY <1>2, <2>1 DEF EndRound
<1>4. CASE ~(r.round < 2) BY <1>2, <1>4 DEF EndRound
<1>. QED BY <1>3, <1>4

\* The result of u's attempt is taken, and noted as useless or as a timeout, or not.
Heard(r, u, useless, late) ==
  [r EXCEPT !.running = @ \ {u}, !.pending = @ - 1, !.softs = @ \cup useless, !.timedOut = late]

LEMMA HeardKeeps ==
  ASSUME NEW r \in Query, r.pc = "loop", Books(r), NEW u \in r.running,
         NEW e \in {{}, {u}}, NEW b \in BOOLEAN
  PROVE  LET s == Heard(r, u, e, b)
         IN /\ s \in Query /\ s.pc = "loop" /\ Books(s)
            /\ s.next = r.next /\ s.pending = r.pending - 1
<1>. DEFINE s == Heard(r, u, e, b)
<1>1. r.running \in SUBSET Ups /\ r.softs \in SUBSET Ups /\ N \in Nat BY UpsFinite DEF Query
<1>2. IsFiniteSet(r.running) /\ Cardinality(r.running) \in 0..N BY <1>1, SubsetFinite
<1>3. Cardinality(r.running \ {u}) = Cardinality(r.running) - 1 BY <1>2, FS_RemoveElement
<1>4. Cardinality(r.running \ {u}) \in 0..N BY <1>1, SubsetFinite
<1>5. /\ s.pc = r.pc /\ s.order = r.order /\ s.next = r.next /\ s.softs = r.softs \cup e
      /\ s.running = r.running \ {u} /\ s.pending = r.pending - 1
  BY DEF Query, Heard
<1>6. s.pending = Cardinality(s.running) /\ s.pending \in 0..N BY <1>3, <1>4, <1>5 DEF Books
<1>7. /\ r.running \ {u} \in SUBSET Ups /\ r.softs \cup e \in SUBSET Ups
      /\ r.pending - 1 \in 0..N
  BY <1>1, <1>5, <1>6
<1>8. s \in Query BY <1>7 DEF Query, Heard
<1>9. Asked(s) = Asked(r) BY <1>5 DEF Asked
<1>10. Reserved(s) BY <1>5 DEF Books, Reserved
<1>11. Books(s)
  <2>. HIDE DEF s
  <2>. QED BY <1>5, <1>6, <1>9, <1>10 DEF Books
<1>. QED BY <1>5, <1>8, <1>11

LEMMA ContinueKeeps ==
  ASSUME NEW r \in Query, r.pc = "loop", Books(r)
  PROVE  /\ Continue(r) \in Query /\ Continue(r).pc \in {"start", "loop", "done"}
         /\ Awaiting(Continue(r))
<1>1. r.pending \in 0..N /\ N \in Nat BY UpsFinite DEF Query
<1>. QED BY <1>1, LaunchKeeps, EndRoundKeeps DEF Continue, Awaiting

-----------------------------------------------------------------------------
(* What is known of the upstreams. *)

LEMMA AverageMeasured ==
  ASSUME NEW old \in Nat \ {0}, NEW new \in Nat \ {0}
  PROVE  Average(old, new) \in Nat \ {0} /\ Later(old, Average(old, new)) \in Nat \ {0}
<1>1. old * 7 + new \in Nat /\ old * 7 + new >= 8 OBVIOUS
<1>2. \A m \in Nat : m >= 8 => m \div 8 \in Nat \ {0} OBVIOUS
<1>3. Average(old, new) \in Nat \ {0} BY <1>1, <1>2 DEF Average
<1>. QED BY <1>3 DEF Later

\* How a step may change what is known.
Marks ==
  \/ UNCHANGED states
  \/ \E u \in Ups : MarkDown(u)
  \/ \E u \in Ups, t \in Rtts : MarkSuccess(u, t)
  \/ \E u \in Ups, t \in Elapsed : MarkSlow(u, t)
  \/ \E u \in Ups : down' = [down EXCEPT ![u] = FALSE] /\ UNCHANGED <<failed, rtt>>

LEMMA StepMarks ==
  ASSUME [Next]_vars
  PROVE  Marks
<1>1. CASE UNCHANGED vars BY <1>1 DEF vars, Marks
<1>2. ASSUME NEW q \in Queries,
             Ask(q) \/ StartRound(q) \/ Tick(q) \/ Abandon(q) \/ Win(q) \/ TimePasses(q)
      PROVE  Marks
  BY <1>2 DEF Ask, StartRound, Tick, Abandon, Win, TimePasses, Marks
<1>3. ASSUME NEW q \in Queries, Result(q) PROVE Marks
  BY <1>3 DEF Result, Useful, Useless, Fails, Marks
<1>4. ASSUME NEW q \in Queries, NEW u \in Ups,
             BlameSoft(q, u) \/ \E t \in Elapsed : SlowLoser(q, u, t)
      PROVE  Marks
  BY <1>4 DEF BlameSoft, SlowLoser, Marks
<1>5. ASSUME NEW u \in Ups, CooldownOver(u) \/ BootStep(u) PROVE Marks
  BY <1>5 DEF CooldownOver, BootStep, BootAnswered, BootRefused, BootLeaves, BootSlows, Marks
<1>6. CASE HealthCheck
  BY <1>6 DEF HealthCheck, HealthTick, ProbeFails, ProbeRevives, Marks
<1>. QED BY <1>1, <1>2, <1>3, <1>4, <1>5, <1>6 DEF Next, Settle

\* A measurement is never lost; what is in cooldown has failed.
LEMMA StatesKeep ==
  ASSUME TypeOK, CooldownIsFailure, [Next]_vars
  PROVE  /\ down' \in [Ups -> BOOLEAN] /\ failed' \in [Ups -> BOOLEAN] /\ rtt' \in [Ups -> Nat]
         /\ CooldownIsFailure'
         /\ \A u \in Ups : rtt[u] # 0 => rtt'[u] # 0
<1>. DEFINE Known == /\ down' \in [Ups -> BOOLEAN] /\ failed' \in [Ups -> BOOLEAN]
                     /\ rtt' \in [Ups -> Nat]
                     /\ \A u \in Ups : down'[u] => failed'[u]
                     /\ \A u \in Ups : rtt[u] # 0 => rtt'[u] # 0
<1>1. /\ down \in [Ups -> BOOLEAN] /\ failed \in [Ups -> BOOLEAN] /\ rtt \in [Ups -> Nat]
      /\ \A u \in Ups : down[u] => failed[u]
  BY DEF TypeOK, CooldownIsFailure
<1>2. ASSUME UNCHANGED states PROVE Known
  <2>1. down' = down /\ failed' = failed /\ rtt' = rtt BY <1>2 DEF states
  <2>. QED BY <1>1, <2>1
<1>3. ASSUME NEW u \in Ups, MarkDown(u) PROVE Known
  <2>1. /\ down' \in [Ups -> BOOLEAN] /\ failed' \in [Ups -> BOOLEAN] /\ rtt' = rtt
        /\ \A v \in Ups : v # u => down'[v] = down[v] /\ failed'[v] = failed[v]
        /\ failed'[u]
    BY <1>1, <1>3 DEF MarkDown
  <2>. QED BY <1>1, <2>1
<1>4. ASSUME NEW u \in Ups, down' = [down EXCEPT ![u] = FALSE], UNCHANGED <<failed, rtt>>
      PROVE  Known
  BY <1>1, <1>4
<1>5. ASSUME NEW u \in Ups, NEW n \in Nat \ {0}, rtt' = [rtt EXCEPT ![u] = n]
      PROVE  rtt' \in [Ups -> Nat] /\ \A v \in Ups : rtt[v] # 0 => rtt'[v] # 0
  BY <1>1, <1>5
<1>6. ASSUME NEW u \in Ups, NEW t \in Rtts, MarkSuccess(u, t) PROVE Known
  <2>1. t \in Nat \ {0} BY PickerAssumption
  <2>2. (IF rtt[u] = 0 THEN t ELSE Average(rtt[u], t)) \in Nat \ {0}
    BY <1>1, <2>1, AverageMeasured
  <2>3. rtt' \in [Ups -> Nat] /\ \A v \in Ups : rtt[v] # 0 => rtt'[v] # 0
    BY <1>5, <1>6, <2>2 DEF MarkSuccess
  <2>. QED BY <1>1, <1>6, <2>3 DEF MarkSuccess
<1>7. ASSUME NEW u \in Ups, NEW t \in Elapsed, MarkSlow(u, t) PROVE Known
  <2>1. t \in Nat \ {0} BY PickerAssumption
  <2>2. (IF rtt[u] = 0 THEN t ELSE Later(rtt[u], Average(rtt[u], t))) \in Nat \ {0}
    BY <1>1, <2>1, AverageMeasured
  <2>3. rtt' \in [Ups -> Nat] /\ \A v \in Ups : rtt[v] # 0 => rtt'[v] # 0
    BY <1>5, <1>7, <2>2 DEF MarkSlow
  <2>. QED BY <1>1, <1>7, <2>3 DEF MarkSlow
<1>8. Known
  <2>. HIDE DEF Known
  <2>1. CASE \E u \in Ups : MarkDown(u) BY <1>3, <2>1
  <2>2. CASE \E u \in Ups, t \in Rtts : MarkSuccess(u, t) BY <1>6, <2>2
  <2>3. CASE \E u \in Ups, t \in Elapsed : MarkSlow(u, t) BY <1>7, <2>3
  <2>4. CASE \E u \in Ups : down' = [down EXCEPT ![u] = FALSE] /\ UNCHANGED <<failed, rtt>>
    BY <1>4, <2>4
  <2>. QED BY <1>2, <2>1, <2>2, <2>3, <2>4, StepMarks DEF Marks
<1>. QED BY <1>8 DEF CooldownIsFailure

LEMMA SlowMeasures ==
  ASSUME TypeOK, NEW u \in Ups, NEW t \in Elapsed, MarkSlow(u, t)
  PROVE  rtt'[u] # 0
<1>1. rtt \in [Ups -> Nat] /\ t \in Nat \ {0} BY PickerAssumption DEF TypeOK
<1>2. (IF rtt[u] = 0 THEN t ELSE Later(rtt[u], Average(rtt[u], t))) \in Nat \ {0}
  BY <1>1, AverageMeasured
<1>. QED BY <1>1, <1>2 DEF MarkSlow

-----------------------------------------------------------------------------
(* The queries. *)

LEMMA OneQuery ==
  ASSUME TypeOK, [Next]_vars, NEW q \in Queries
  PROVE  \/ query'[q] = query[q]
         \/ Ask(q) \/ StartRound(q) \/ Tick(q) \/ Abandon(q) \/ Win(q) \/ TimePasses(q)
         \/ Result(q)
         \/ \E u \in Ups : BlameSoft(q, u) \/ \E t \in Elapsed : SlowLoser(q, u, t)
<1>1. \A r : \A p \in Queries : Becomes(p, r) => p = q \/ query'[q] = query[q]
  BY DEF Becomes, TypeOK
<1>2. CASE UNCHANGED vars BY <1>2 DEF vars
<1>3. ASSUME NEW p \in Queries,
             Ask(p) \/ StartRound(p) \/ Tick(p) \/ Abandon(p) \/ Win(p) \/ TimePasses(p)
      PROVE  p = q \/ query'[q] = query[q]
  BY <1>1, <1>3 DEF Ask, StartRound, Tick, Abandon, Win, TimePasses
<1>4. ASSUME NEW p \in Queries, Result(p) PROVE p = q \/ query'[q] = query[q]
  BY <1>1, <1>4 DEF Result, Useful, Useless, Fails
<1>5. ASSUME NEW p \in Queries, NEW u \in Ups,
             BlameSoft(p, u) \/ \E t \in Elapsed : SlowLoser(p, u, t)
      PROVE  p = q \/ query'[q] = query[q]
  BY <1>1, <1>5 DEF BlameSoft, SlowLoser
<1>6. ASSUME NEW u \in Ups, CooldownOver(u) \/ BootStep(u) PROVE query' = query
  BY <1>6 DEF CooldownOver, BootStep, BootAnswered, BootRefused, BootLeaves, BootSlows
<1>7. HealthCheck => query' = query
  BY DEF HealthCheck, HealthTick, ProbeFails, ProbeRevives, PassProbes
<1>. QED BY <1>2, <1>3, <1>4, <1>5, <1>6, <1>7 DEF Next, Settle
\* What is promised of a query, and how it is kept.
Fits(r, measured) == r \in Query /\ Awaiting(r) /\ Settling(r, measured)

LEMMA Resting ==
  ASSUME NEW r \in Query, r.pc \notin {"loop", "settle"}, NEW measured
  PROVE  Fits(r, measured)
BY DEF Fits, Awaiting, Settling

LEMMA QueryStep ==
  ASSUME Inv, [Next]_vars, NEW q \in Queries
  PROVE  Fits(query'[q], rtt')
<1>. DEFINE r == query[q]
            s == query'[q]
<1>. SUFFICES Fits(s, rtt') OBVIOUS
<1>1. /\ TypeOK /\ CooldownIsFailure /\ q \in DOMAIN query
      /\ r \in Query /\ Awaiting(r) /\ Settling(r, rtt)
  BY DEF Inv, TypeOK, QueryInv
<1>2. \A x : Becomes(q, x) => s = x BY <1>1 DEF Becomes
<1>3. \A u \in Ups : rtt[u] # 0 => rtt'[u] # 0 BY <1>1, StatesKeep
<1>4. r.running \in SUBSET Ups BY <1>1 DEF Query
<1>5. ASSUME NEW x, Settling(x, rtt), x.running \in SUBSET Ups PROVE Settling(x, rtt')
  <2>1. Earlier(x, x.winner) \in SUBSET Ups BY <1>5 DEF Earlier
  <2>. QED BY <1>3, <1>5, <2>1 DEF Settling
<1>6. CASE s = r
  BY <1>1, <1>4, <1>5, <1>6 DEF Fits
<1>7. CASE Ask(q)
  <2>1. LET x == [Idle EXCEPT !.pc = "start", !.round = 1] IN x \in Query /\ x.pc = "start"
    BY IdleType
  <2>. QED BY <1>2, <1>7, <2>1, Resting DEF Ask
<1>8. CASE StartRound(q)
  <2>1. Ordered \in [Ups -> Ups] /\ NobodyTwice(Ordered) BY <1>1, OrderedPermutes
  <2>2. 1 \in Ups /\ 2 \in 1..N + 1 /\ 1 \in 0..N BY UpsFinite DEF Ups
  <2>3. s = [r EXCEPT !.pc = "loop", !.order = Ordered, !.next = 2,
                      !.running = {Ordered[1]}, !.pending = 1, !.softs = {}]
    BY <1>2, <1>8 DEF StartRound
  <2>4. {Ordered[1]} \in SUBSET Ups /\ {} \in SUBSET Ups BY <2>1, <2>2
  <2>5. s \in Query BY <1>1, <2>1, <2>2, <2>3, <2>4 DEF Query
  <2>6. /\ s.pc = "loop" /\ s.order = Ordered /\ s.next = 2 /\ s.running = {Ordered[1]}
        /\ s.pending = 1 /\ s.softs = {}
    BY <1>1, <2>3 DEF Query
  <2>7. Cardinality({Ordered[1]}) = 1 BY FS_Singleton
  <2>8. Asked(s) = {Ordered[1]} /\ Reserved(s) BY <2>6 DEF Asked, Reserved
  <2>. HIDE DEF s
  <2>9. Books(s) BY <2>1, <2>6, <2>7, <2>8 DEF Books
  <2>. QED BY <2>5, <2>6, <2>9 DEF Fits, Awaiting, Settling
<1>9. CASE Tick(q)
  <2>1. s = Launch(r) /\ r.pc = "loop" /\ MayLaunch(r) BY <1>2, <1>9 DEF Tick, At
  <2>. QED BY <1>1, <2>1, LaunchKeeps DEF Awaiting, Fits, Settling
<1>10. CASE Abandon(q)
  <2>1. s = EndRound(r) BY <1>2, <1>10 DEF Abandon
  <2>. QED BY <1>1, <2>1, EndRoundKeeps, Resting
<1>11. CASE Win(q)
  <2>1. LET x == [Idle EXCEPT !.pc = "done"] IN x \in Query /\ x.pc = "done"
    <3>1. 0 \in 0..2 OBVIOUS
    <3>. QED BY <3>1, IdleType
  <2>. QED BY <1>2, <1>11, <2>1, Resting DEF Win
<1>12. CASE TimePasses(q)
  <2>1. s = [r EXCEPT !.ctx = "done"] /\ r.pc \in {"start", "loop"}
    BY <1>2, <1>12 DEF TimePasses
  <2>2. s \in Query BY <1>1, <2>1 DEF Query
  <2>3. /\ s.pc = r.pc /\ s.order = r.order /\ s.next = r.next /\ s.running = r.running
        /\ s.pending = r.pending /\ s.softs = r.softs
    BY <1>1, <2>1 DEF Query
  <2>. HIDE DEF s
  <2>4. Awaiting(s) BY <1>1, <2>3 DEF Awaiting, Books, Asked, Reserved
  <2>. QED BY <2>1, <2>2, <2>3, <2>4 DEF Fits, Settling
<1>13. CASE Result(q)
  <2>1. PICK u \in Ups : \/ \E t \in Rtts : Useful(q, u, t)
                         \/ Useless(q, u)
                         \/ \E timeout \in BOOLEAN : Fails(q, u, timeout)
    BY <1>13 DEF Result
  <2>2. r.pc = "loop" /\ u \in r.running /\ Books(r)
    BY <1>1, <2>1 DEF Useful, Useless, Fails, At, Awaiting
  <2>3. CASE \E t \in Rtts : Useful(q, u, t)
    <3>1. s = [Idle EXCEPT !.pc = "settle", !.winner = u, !.slow = Earlier(r, u),
                           !.order = r.order, !.running = r.running \ {u}, !.softs = r.softs]
      BY <1>2, <2>3 DEF Useful
    <3>2. Earlier(r, u) \in SUBSET Ups BY <1>4 DEF Earlier
    <3>3. s \in Query
      <4>1. /\ r.running \ {u} \in SUBSET Ups /\ r.softs \in SUBSET Ups /\ r.order \in [Ups -> Ups]
            /\ u \in Ups \cup {0}
        BY <1>1, <1>4 DEF Query
      <4>2. Idle \in Query BY IdleType
      <4>. HIDE DEF s
      <4>. QED BY <3>1, <3>2, <4>1, <4>2 DEF Query
    <3>4. /\ s.pc = "settle" /\ s.winner = u /\ s.slow = Earlier(r, u) /\ s.order = r.order
          /\ s.running = r.running \ {u} /\ s.softs = r.softs
      BY <3>1 DEF Idle
    <3>. HIDE DEF s
    <3>5. Earlier(s, u) \subseteq Earlier(r, u) BY <3>4 DEF Earlier
    <3>6. Settling(s, rtt') BY <2>2, <3>4, <3>5 DEF Settling, Books
    <3>. QED BY <3>3, <3>4, <3>6 DEF Fits, Awaiting
  <2>4. CASE Useless(q, u)
    <3>. DEFINE x == [Taken(q, u) EXCEPT !.softs = @ \cup {u}]
                y == Heard(r, u, {u}, r.timedOut)
    <3>1. s = Continue(x) BY <1>2, <2>4 DEF Useless
    <3>2. x = y BY <1>1 DEF Taken, Heard, Query
    <3>3. y \in Query /\ y.pc = "loop" /\ Books(y)
      <4>1. r.timedOut \in BOOLEAN BY <1>1 DEF Query
      <4>. QED BY <1>1, <2>2, <4>1, HeardKeeps
    <3>. HIDE DEF x, y
    <3>. QED BY <3>1, <3>2, <3>3, ContinueKeeps DEF Fits, Settling
  <2>5. CASE \E timeout \in BOOLEAN : Fails(q, u, timeout)
    <3>1. PICK b \in BOOLEAN : Fails(q, u, b) BY <2>5
    <3>. DEFINE c == r.timedOut \/ (b /\ r.round = 1)
                x == [Taken(q, u) EXCEPT !.timedOut = @ \/ (b /\ Taken(q, u).round = 1)]
                y == Heard(r, u, {}, c)
    <3>2. s = Continue(x) BY <1>2, <3>1 DEF Fails
    <3>3. x = y BY <1>1 DEF Taken, Heard, Query
    <3>4. y \in Query /\ y.pc = "loop" /\ Books(y)
      <4>1. c \in BOOLEAN /\ {} \in {{}, {u}} BY <1>1 DEF Query
      <4>. HIDE DEF c
      <4>. QED BY <1>1, <2>2, <4>1, HeardKeeps
    <3>. HIDE DEF x, y
    <3>. QED BY <3>2, <3>3, <3>4, ContinueKeeps DEF Fits, Settling
  <2>. QED BY <2>1, <2>3, <2>4, <2>5
<1>14. ASSUME NEW u \in Ups, BlameSoft(q, u) PROVE Fits(s, rtt')
  <2>1. s = [r EXCEPT !.softs = @ \ {u}] /\ r.pc = "settle"
    BY <1>2, <1>14 DEF BlameSoft, At
  <2>2. s \in Query BY <1>1, <2>1 DEF Query
  <2>3. /\ s.pc = r.pc /\ s.order = r.order /\ s.running = r.running /\ s.winner = r.winner
        /\ s.softs \subseteq r.softs /\ s.slow = r.slow
    BY <1>1, <2>1 DEF Query
  <2>. HIDE DEF s
  <2>4. Earlier(s, s.winner) = Earlier(r, r.winner) BY <2>3 DEF Earlier
  <2>5. Settling(s, rtt) BY <1>1, <2>3, <2>4 DEF Settling
  <2>6. Settling(s, rtt') BY <1>4, <1>5, <2>3, <2>5
  <2>. QED BY <2>1, <2>2, <2>3, <2>6 DEF Fits, Awaiting
<1>15. ASSUME NEW u \in Ups, NEW t \in Elapsed, SlowLoser(q, u, t) PROVE Fits(s, rtt')
  <2>1. s = [r EXCEPT !.slow = @ \ {u}] /\ r.pc = "settle" /\ MarkSlow(u, t)
    BY <1>2, <1>15 DEF SlowLoser, At
  <2>2. s \in Query BY <1>1, <2>1 DEF Query
  <2>3. /\ s.pc = r.pc /\ s.order = r.order /\ s.running = r.running /\ s.winner = r.winner
        /\ s.softs = r.softs /\ s.slow = r.slow \ {u}
    BY <1>1, <2>1 DEF Query
  <2>4. rtt'[u] # 0 BY <1>1, <2>1, SlowMeasures
  <2>. HIDE DEF s
  <2>5. Earlier(s, s.winner) = Earlier(r, r.winner) BY <2>3 DEF Earlier
  <2>6. Earlier(r, r.winner) \in SUBSET Ups BY <1>4 DEF Earlier
  <2>7. Settling(s, rtt') BY <1>1, <1>3, <2>1, <2>3, <2>4, <2>5, <2>6 DEF Settling
  <2>. QED BY <2>1, <2>2, <2>3, <2>7 DEF Fits, Awaiting
<1>. QED
  BY <1>1, <1>6, <1>7, <1>8, <1>9, <1>10, <1>11, <1>12, <1>13, <1>14, <1>15, OneQuery

-----------------------------------------------------------------------------
(* The health check and the probes at start. *)

LEMMA ProbesStep ==
  ASSUME TypeOK, BootInv, [Next]_vars
  PROVE  /\ checking' \subseteq Ups
         /\ boot' \in [Ups -> {"probing", "answered", "refused", "over"}]
         /\ bootLeft' \subseteq Ups /\ bootSlow' \in [Ups -> 0..N]
         /\ BootInv'
<1>. DEFINE Kept == /\ checking' \subseteq Ups
                    /\ boot' \in [Ups -> {"probing", "answered", "refused", "over"}]
                    /\ bootLeft' \subseteq Ups /\ bootSlow' \in [Ups -> 0..N]
                    /\ \A v \in Ups : bootSlow'[v] + Cardinality(NotOver(boot')) <= N
<1>1. /\ checking \subseteq Ups
      /\ boot \in [Ups -> {"probing", "answered", "refused", "over"}]
      /\ bootLeft \subseteq Ups /\ bootSlow \in [Ups -> 0..N]
      /\ \A v \in Ups : bootSlow[v] + Cardinality(NotOver(boot)) <= N
  BY DEF TypeOK, BootInv
<1>2. N \in Nat BY UpsFinite
<1>3. /\ IsFiniteSet(NotOver(boot)) /\ Cardinality(NotOver(boot)) \in 0..N
  BY SubsetFinite DEF NotOver
<1>4. ASSUME UNCHANGED probes PROVE Kept
  <2>1. checking' = checking /\ boot' = boot /\ bootLeft' = bootLeft /\ bootSlow' = bootSlow
    BY <1>4 DEF probes
  <2>. QED BY <1>1, <2>1
<1>5. ASSUME checking' \subseteq Ups, UNCHANGED <<boot, bootLeft, bootSlow>> PROVE Kept
  BY <1>1, <1>5
<1>6. ASSUME NEW u \in Ups, NEW x \in {"answered", "refused"}, boot[u] = "probing",
             boot' = [boot EXCEPT ![u] = x], UNCHANGED <<checking, bootLeft, bootSlow>>
      PROVE  Kept
  <2>1. NotOver(boot') = NotOver(boot) BY <1>1, <1>6 DEF NotOver
  <2>. QED BY <1>1, <1>6, <2>1
<1>7. ASSUME NEW u \in Ups, BootLeaves(u) PROVE Kept
  <2>1. boot' = [boot EXCEPT ![u] = "over"] /\ u \in NotOver(boot)
        /\ checking' = checking /\ bootLeft' = bootLeft \ {u}
    BY <1>7 DEF BootLeaves, NotOver
  <2>2. NotOver(boot') = NotOver(boot) \ {u} BY <1>1, <2>1 DEF NotOver
  <2>3. Cardinality(NotOver(boot')) = Cardinality(NotOver(boot)) - 1
    BY <1>3, <2>1, <2>2, FS_RemoveElement
  <2>4. ASSUME NEW v \in Ups PROVE bootSlow'[v] \in {bootSlow[v], bootSlow[v] + 1}
    BY <1>7 DEF BootLeaves
  <2>5. ASSUME NEW v \in Ups
        PROVE  bootSlow'[v] \in 0..N /\ bootSlow'[v] + Cardinality(NotOver(boot')) <= N
    <3>1. bootSlow[v] \in 0..N /\ bootSlow[v] + Cardinality(NotOver(boot)) <= N BY <1>1
    <3>2. Cardinality(NotOver(boot)) - 1 \in Nat
      BY <1>3, <2>1, FS_EmptySet
    <3>. QED BY <1>2, <1>3, <2>3, <2>4, <3>1, <3>2
  <2>6. bootSlow' = [v \in Ups |-> bootSlow'[v]] BY <1>7 DEF BootLeaves
  <2>7. bootSlow' \in [Ups -> 0..N] BY <2>5, <2>6
  <2>. QED BY <1>1, <2>1, <2>5, <2>7
<1>8. ASSUME NEW u \in Ups, NEW t, BootSlows(u, t) PROVE Kept
  <2>1. /\ bootSlow[u] > 0 /\ bootSlow' = [bootSlow EXCEPT ![u] = @ - 1]
        /\ UNCHANGED <<checking, boot, bootLeft>>
    BY <1>8 DEF BootSlows
  <2>2. \A v \in Ups : bootSlow'[v] \in 0..N /\ bootSlow'[v] <= bootSlow[v]
    BY <1>1, <1>2, <2>1
  <2>3. bootSlow' \in [Ups -> 0..N] BY <1>1, <2>1, <2>2
  <2>4. ASSUME NEW v \in Ups PROVE bootSlow'[v] + Cardinality(NotOver(boot')) <= N
    <3>1. bootSlow[v] \in 0..N /\ bootSlow[v] + Cardinality(NotOver(boot)) <= N BY <1>1
    <3>. QED BY <1>2, <1>3, <2>1, <2>2, <3>1
  <2>. QED BY <1>1, <2>1, <2>3, <2>4
<1>9. Kept
  <2>. HIDE DEF Kept
  <2>1. ASSUME UNCHANGED vars PROVE Kept BY <1>4, <2>1 DEF vars
  <2>2. ASSUME NEW q \in Queries,
               Ask(q) \/ StartRound(q) \/ Result(q) \/ Tick(q) \/ Abandon(q) \/ Settle(q)
               \/ TimePasses(q)
        PROVE  Kept
    BY <1>4, <2>2 DEF Ask, StartRound, Result, Useful, Useless, Fails, Tick, Abandon, Settle,
                      BlameSoft, SlowLoser, Win, TimePasses
  <2>3. ASSUME NEW u \in Ups, CooldownOver(u) PROVE Kept BY <1>4, <2>3 DEF CooldownOver
  <2>4. ASSUME NEW u \in Ups, BootStep(u) PROVE Kept
    <3>1. CASE \E t \in Rtts : BootAnswered(u, t) BY <1>6, <3>1 DEF BootAnswered
    <3>2. CASE BootRefused(u) BY <1>6, <3>2 DEF BootRefused
    <3>. QED BY <1>7, <1>8, <2>4, <3>1, <3>2 DEF BootStep
  <2>5. ASSUME HealthCheck PROVE Kept
    <3>1. checking' \subseteq Ups /\ UNCHANGED <<boot, bootLeft, bootSlow>>
      BY <1>1, <2>5 DEF HealthCheck, HealthTick, ProbeFails, ProbeRevives, PassProbes
    <3>. QED BY <1>5, <3>1
  <2>. QED BY <2>1, <2>2, <2>3, <2>4, <2>5 DEF Next
<1>. QED BY <1>9 DEF BootInv

-----------------------------------------------------------------------------
(* The invariant. *)

LEMMA InvInit == Init => Inv
<1>. SUFFICES ASSUME Init PROVE Inv OBVIOUS
<1>1. Rtts \subseteq Nat \ {0} /\ Probing \subseteq Ups /\ N \in Nat
  BY PickerAssumption, UpsFinite DEF Ups, N
<1>2. Idle \in Query /\ Idle.pc = "idle" BY IdleType DEF Idle
<1>. DEFINE Good == {v \in Ups \ Probing : ~failed[v]}
<1>3. Good \cup Probing \in SUBSET Ups /\ Good \cap Probing = {} BY <1>1
<1>4. /\ IsFiniteSet(Good) /\ IsFiniteSet(Probing) /\ Good \in SUBSET Ups
      /\ Cardinality(Good) \in 0..N /\ Cardinality(Probing) \in 0..N
      /\ Cardinality(Good \cup Probing) \in 0..N
  BY <1>1, <1>3, SubsetFinite
<1>5. Cardinality(Good) + Cardinality(Probing) <= N
  <2>1. Cardinality(Good \cup Probing) = Cardinality(Good) + Cardinality(Probing) - Cardinality({})
    BY <1>3, <1>4, FS_Union
  <2>. QED BY <1>4, <2>1, FS_EmptySet
<1>6. NotOver(boot) = Probing BY <1>1 DEF Init, NotOver
<1>7. \A u \in Ups : bootSlow[u] \in {0, Cardinality(Good)} BY DEF Init
<1>8. bootSlow \in [Ups -> 0..N]
  <2>1. \A u \in Ups : bootSlow[u] \in 0..N
    <3>. HIDE DEF Good
    <3>. QED BY <1>1, <1>4, <1>7
  <2>2. bootSlow = [u \in Ups |-> bootSlow[u]] BY DEF Init
  <2>. QED BY <2>1, <2>2
<1>9. rtt \in [Ups -> Nat] /\ failed \in [Ups -> BOOLEAN] /\ down = failed
  <2>1. rtt \in [Ups -> Rtts \cup {0}] /\ failed \in [Ups -> BOOLEAN] /\ down = failed
    BY DEF Init
  <2>2. Rtts \cup {0} \subseteq Nat BY <1>1
  <2>. QED BY <2>1, <2>2
<1>10. TypeOK
  <2>1. /\ boot \in [Ups -> {"probing", "answered", "refused", "over"}]
        /\ bootLeft \subseteq Ups /\ checking \subseteq Ups /\ query \in [Queries -> Query]
    BY <1>1, <1>2 DEF Init
  <2>. QED BY <1>8, <1>9, <2>1 DEF TypeOK
<1>11. BootInv
  <2>1. ASSUME NEW v \in Ups PROVE bootSlow[v] + Cardinality(Probing) <= N
    <3>. HIDE DEF Good
    <3>. QED BY <1>1, <1>4, <1>5, <1>7
  <2>. QED BY <1>6, <2>1 DEF BootInv
<1>12. QueryInv BY <1>2 DEF Init, QueryInv, Awaiting, Settling
<1>13. CooldownIsFailure BY <1>9 DEF CooldownIsFailure
<1>. QED BY <1>10, <1>11, <1>12, <1>13 DEF Inv

LEMMA InvStep ==
  ASSUME Inv, [Next]_vars
  PROVE  Inv'
<1>1. TypeOK /\ CooldownIsFailure /\ BootInv BY DEF Inv
<1>2. \A q \in Queries : Fits(query'[q], rtt') BY QueryStep
<1>3. query' = [q \in Queries |-> query'[q]]
  <2>1. query \in [Queries -> Query] BY <1>1 DEF TypeOK
  <2>. QED
    BY <2>1 DEF Next, vars, Ask, StartRound, Result, Useful, Useless, Fails, Tick, Abandon, Settle,
                BlameSoft, SlowLoser, Win, TimePasses, Becomes, CooldownOver, BootStep,
                BootAnswered, BootRefused, BootLeaves, BootSlows, HealthCheck, HealthTick,
                ProbeFails, ProbeRevives, PassProbes
<1>4. query' \in [Queries -> Query] BY <1>2, <1>3 DEF Fits
<1>5. TypeOK' BY <1>1, <1>4, StatesKeep, ProbesStep DEF TypeOK
<1>6. QueryInv' BY <1>2 DEF QueryInv, Fits
<1>. QED BY <1>1, <1>5, <1>6, StatesKeep, ProbesStep DEF Inv

LEMMA Invariance == Spec => []Inv
BY InvInit, InvStep, PTL DEF Spec

\* BooksAreKept: a round that waits, waits for somebody, and knows how many; no
\* upstream is set back out of the health check's sight (picker.go:42-50, 112-144,
\* 297-377).
THEOREM BooksAreKept == Spec => []Consistent
<1>1. ASSUME Inv PROVE Consistent
  <2>1. TypeOK /\ CooldownIsFailure /\ QueryInv BY <1>1 DEF Inv
  <2>2. SomebodyIsAwaited BY <2>1 DEF QueryInv, Awaiting, Books, SomebodyIsAwaited, At
  <2>. QED BY <2>1, <2>2 DEF Consistent
<1>. QED BY <1>1, Invariance, PTL

\* ReservesWait: a reserve upstream is asked only when every primary before it in the
\* query's order has been heard (picker.go:258-261, 308-318).
THEOREM ReservesWait == Spec => []FallbackAfterPrimaries
<1>1. ASSUME Inv PROVE FallbackAfterPrimaries
  BY <1>1 DEF Inv, QueryInv, Awaiting, Books, Reserved, FallbackAfterPrimaries, At
<1>. QED BY <1>1, Invariance, PTL

LEMMA ContinueEnds ==
  ASSUME NEW r \in Query, r.pc = "loop", Books(r), Continue(r).pc = "done"
  PROVE  r.next = N + 1 /\ r.pending = 0
<1>1. ~MayLaunch(r) BY LaunchKeeps DEF Continue
<1>2. r.pending = 0 BY <1>1 DEF Continue
<1>3. r.running \in SUBSET Ups BY DEF Query
<1>4. r.running = {} BY <1>2, <1>3, SubsetFinite, FS_EmptySet DEF Books
<1>5. ~(r.next <= N) BY <1>1, <1>4 DEF MayLaunch
<1>6. r.next \in 1..N + 1 /\ N \in Nat BY UpsFinite DEF Query
<1>. QED BY <1>2, <1>5, <1>6

\* EverybodyIsHeard: with time left, a query gives up only when every upstream was
\* asked in its last round and was heard (picker.go:263-286, 365-371).
THEOREM EverybodyIsHeard == Spec => GivesUpOnlyAfterAll
<1>1. ASSUME Inv, [Next]_vars, NEW q \in Queries,
             At(q, "loop"), query'[q].pc = "done", query[q].ctx # "done"
      PROVE  query[q].next = N + 1 /\ Cardinality(query[q].running) = 1
  <2>. DEFINE r == query[q]
              s == query'[q]
  <2>1. TypeOK /\ r \in Query /\ r.pc = "loop" /\ Books(r)
    BY <1>1 DEF Inv, TypeOK, QueryInv, Awaiting, At
  <2>2. \A x : Becomes(q, x) => s = x BY <2>1 DEF Becomes, TypeOK
  <2>3. s # r BY <1>1, <2>1
  <2>4. ~(Ask(q) \/ StartRound(q) \/ Win(q)) /\ ~Abandon(q)
    BY <1>1, <2>1 DEF Ask, StartRound, Win, Abandon, At
  <2>5. ~Tick(q)
    <3>1. Tick(q) => s = Launch(r) /\ MayLaunch(r) BY <2>2 DEF Tick
    <3>. QED BY <1>1, <2>1, <3>1, LaunchKeeps
  <2>6. ~TimePasses(q)
    <3>1. TimePasses(q) => s = [r EXCEPT !.ctx = "done"] BY <2>2 DEF TimePasses
    <3>2. [r EXCEPT !.ctx = "done"].pc = r.pc BY <2>1 DEF Query
    <3>. QED BY <1>1, <2>1, <3>1, <3>2
  <2>7. \A u \in Ups : ~BlameSoft(q, u) /\ \A t \in Elapsed : ~SlowLoser(q, u, t)
    BY <2>1 DEF BlameSoft, SlowLoser, At
  <2>8. PICK u \in Ups : \/ \E t \in Rtts : Useful(q, u, t)
                         \/ Useless(q, u)
                         \/ \E timeout \in BOOLEAN : Fails(q, u, timeout)
    BY <1>1, <2>1, <2>3, <2>4, <2>5, <2>6, <2>7, OneQuery DEF Result
  <2>9. ASSUME NEW t \in Rtts, Useful(q, u, t) PROVE FALSE
    <3>1. s = [Idle EXCEPT !.pc = "settle", !.winner = u, !.slow = Earlier(r, u),
                           !.order = r.order, !.running = r.running \ {u}, !.softs = r.softs]
      BY <2>2, <2>9 DEF Useful
    <3>2. s.pc = "settle" BY <3>1 DEF Idle
    <3>. QED BY <1>1, <3>2
  <2>10. u \in r.running BY <2>8, <2>9 DEF Useless, Fails
  <2>11. PICK e \in {{}, {u}}, b \in BOOLEAN :
           s = Continue(Heard(r, u, e, b))
    <3>1. CASE Useless(q, u)
      <4>1. s = Continue([Taken(q, u) EXCEPT !.softs = @ \cup {u}]) BY <2>2, <3>1 DEF Useless
      <4>2. [Taken(q, u) EXCEPT !.softs = @ \cup {u}] = Heard(r, u, {u}, r.timedOut)
        BY <2>1 DEF Taken, Heard, Query
      <4>3. r.timedOut \in BOOLEAN BY <2>1 DEF Query
      <4>. QED BY <4>1, <4>2, <4>3
    <3>2. ASSUME NEW timeout \in BOOLEAN, Fails(q, u, timeout)
          PROVE  \E b \in BOOLEAN : s = Continue(Heard(r, u, {}, b))
      <4>. DEFINE c == r.timedOut \/ (timeout /\ r.round = 1)
                  x == [Taken(q, u) EXCEPT !.timedOut = @ \/ (timeout /\ Taken(q, u).round = 1)]
      <4>1. s = Continue(x) BY <2>2, <3>2 DEF Fails
      <4>2. x = Heard(r, u, {}, c) BY <2>1 DEF Taken, Heard, Query
      <4>3. c \in BOOLEAN BY <2>1 DEF Query
      <4>. HIDE DEF c, x
      <4>. QED BY <4>1, <4>2, <4>3
    <3>. QED BY <2>8, <2>9, <3>1, <3>2
  <2>. DEFINE y == Heard(r, u, e, b)
  <2>12. y \in Query /\ y.pc = "loop" /\ Books(y)
    BY <2>1, <2>10, <2>11, HeardKeeps
  <2>13. y.next = r.next /\ y.pending = r.pending - 1 BY <2>1, <2>10, <2>11, HeardKeeps
  <2>14. y.next = N + 1 /\ y.pending = 0 BY <1>1, <2>11, <2>12, ContinueEnds
  <2>15. r.pending \in 0..N /\ N \in Nat BY <2>1, UpsFinite DEF Query
  <2>. QED BY <2>1, <2>13, <2>14, <2>15 DEF Books
<1>2. ASSUME Inv, [Next]_vars
      PROVE  \A q \in Queries :
               At(q, "loop") /\ query'[q].pc = "done" /\ query[q].ctx # "done" =>
                 query[q].next = N + 1 /\ Cardinality(query[q].running) = 1
  BY <1>1, <1>2
<1>. QED BY <1>2, Invariance, PTL DEF Spec, GivesUpOnlyAfterAll

\* NobodyIsBlamed: settling a query sets back none of the upstreams that were still
\* being waited for (picker.go:330-345).
THEOREM NobodyIsBlamed == Spec => LosersNotBlamed
<1>1. ASSUME Inv, [Next]_vars, NEW q \in Queries, At(q, "settle"), query'[q] # query[q],
             NEW u \in query[q].running
      PROVE  failed'[u] = failed[u]
  <2>1. /\ TypeOK /\ query[q] \in Query /\ query[q].pc = "settle"
        /\ query[q].running \cap query[q].softs = {}
    BY <1>1 DEF Inv, TypeOK, QueryInv, Settling, At
  <2>2. ~(Ask(q) \/ StartRound(q) \/ Tick(q) \/ Abandon(q) \/ TimePasses(q)) /\ ~Result(q)
    BY <2>1 DEF Ask, StartRound, Tick, Abandon, TimePasses, Result, Useful, Useless, Fails, At
  <2>3. CASE Win(q) BY <2>3 DEF Win, states
  <2>4. ASSUME NEW v \in Ups, BlameSoft(q, v) PROVE failed'[u] = failed[u]
    <3>1. v # u /\ failed' = [failed EXCEPT ![v] = TRUE]
      BY <1>1, <2>1, <2>4 DEF BlameSoft, MarkDown
    <3>2. u \in Ups /\ failed \in [Ups -> BOOLEAN] BY <2>1 DEF Query, TypeOK
    <3>. QED BY <3>1, <3>2
  <2>5. ASSUME NEW v \in Ups, NEW t \in Elapsed, SlowLoser(q, v, t) PROVE failed' = failed
    BY <2>5 DEF SlowLoser, MarkSlow
  <2>. QED BY <1>1, <2>1, <2>2, <2>3, <2>4, <2>5, OneQuery
<1>2. ASSUME Inv, [Next]_vars
      PROVE  \A q \in Queries : At(q, "settle") /\ query'[q] # query[q] =>
               \A u \in query[q].running : failed'[u] = failed[u]
  BY <1>1, <1>2
<1>. QED BY <1>2, Invariance, PTL DEF Spec, LosersNotBlamed

\* LosersAreSlowed: when a query returns an answer, every upstream asked before the
\* winner and still silent has a measurement (picker.go:124-137).
THEOREM LosersAreSlowed == Spec => LosersMeasured
<1>1. ASSUME Inv, [Next]_vars, NEW q \in Queries, At(q, "settle"), query'[q].pc = "done",
             NEW u \in Earlier(query[q], query[q].winner)
      PROVE  rtt[u] # 0
  <2>. DEFINE r == query[q]
              s == query'[q]
  <2>1. /\ TypeOK /\ r \in Query /\ r.pc = "settle"
        /\ \A v \in Earlier(r, r.winner) \ r.slow : rtt[v] # 0
    BY <1>1 DEF Inv, TypeOK, QueryInv, Settling, At
  <2>2. ~(Ask(q) \/ StartRound(q) \/ Tick(q) \/ Abandon(q) \/ TimePasses(q)) /\ ~Result(q)
    BY <2>1 DEF Ask, StartRound, Tick, Abandon, TimePasses, Result, Useful, Useless, Fails, At
  <2>3. \A x : Becomes(q, x) => s = x BY <2>1 DEF Becomes, TypeOK
  <2>4. \A x : [r EXCEPT !.softs = x].pc = "settle" /\ [r EXCEPT !.slow = x].pc = "settle"
    BY <2>1 DEF Query
  <2>5. ASSUME NEW v \in Ups PROVE ~BlameSoft(q, v)
    <3>1. BlameSoft(q, v) => s = [r EXCEPT !.softs = @ \ {v}] BY <2>3 DEF BlameSoft
    <3>. QED BY <1>1, <2>4, <3>1
  <2>6. ASSUME NEW v \in Ups, NEW t \in Elapsed PROVE ~SlowLoser(q, v, t)
    <3>1. SlowLoser(q, v, t) => s = [r EXCEPT !.slow = @ \ {v}] BY <2>3 DEF SlowLoser
    <3>. QED BY <1>1, <2>4, <3>1
  <2>7. s # r BY <1>1, <2>1
  <2>8. Win(q) BY <1>1, <2>1, <2>2, <2>5, <2>6, <2>7, OneQuery
  <2>. QED BY <1>1, <2>1, <2>8 DEF Win
<1>2. ASSUME Inv, [Next]_vars
      PROVE  \A q \in Queries : At(q, "settle") /\ query'[q].pc = "done" =>
               \A u \in Earlier(query[q], query[q].winner) : rtt[u] # 0
  BY <1>1, <1>2
<1>. QED BY <1>2, Invariance, PTL DEF Spec, LosersMeasured
=============================================================================
