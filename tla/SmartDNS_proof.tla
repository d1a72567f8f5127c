--------------------------- MODULE SmartDNS_proof ---------------------------
(***************************************************************************)
(* Proofs about the local overrides: what Resolve makes of a response obeys *)
(* one table, that was in force after the response had come, for every set *)
(* of names, every chain of CNAMEs (loops too), every table and any number *)
(* of queries and reloads at once.                                         *)
(***************************************************************************)
EXTENDS SmartDNS, FiniteSetTheorems, WellFoundedInduction, TLAPS

Last == Cardinality(Names)

LEMMA LastNatural == Last \in Nat
BY SmartDNSAssumption, FS_CardinalityType DEF Last

-----------------------------------------------------------------------------
(* Walks of a bounded number of steps. *)

\* A set of natural numbers has a least one.
LEMMA LeastNatural ==
  ASSUME NEW T \in SUBSET Nat, T # {}
  PROVE  \E x \in T : \A y \in T : x <= y
<1>. DEFINE R == {ss \in Nat \X Nat : ss[1] < ss[2]}
<1>1. IsWellFoundedOn(R, Nat)
  BY NatLessThanWellFounded DEF OpToRel
<1>2. \A x, y \in Nat : <<y, x>> \in R <=> y < x
  OBVIOUS
<1>. HIDE DEF R
<1>3. PICK x \in T : \A y \in T : ~(<<y, x>> \in R)
  BY <1>1, WFMin
<1>4. ASSUME NEW y \in T PROVE x <= y
  <2>1. x \in Nat /\ y \in Nat OBVIOUS
  <2>2. ~(y < x) BY <1>2, <1>3, <2>1
  <2>. QED BY <2>1, <2>2
<1>. QED BY <1>4

\* What holds at the start and is kept by every step holds all along.
LEMMA AllAlong ==
  ASSUME NEW n \in Nat, NEW H \in SUBSET (0..n), 0 \in H,
         \A i \in 0..n : i # 0 /\ i - 1 \in H => i \in H
  PROVE  H = 0..n
<1>1. SUFFICES ASSUME H # 0..n PROVE FALSE
  OBVIOUS
<1>. DEFINE T == (0..n) \ H
<1>2. T \in SUBSET Nat /\ T # {}
  <2>1. 0..n \in SUBSET Nat OBVIOUS
  <2>2. \E i \in 0..n : i \notin H BY <1>1, Zenon
  <2>. QED BY <2>1, <2>2, Zenon
<1>3. PICK x \in T : \A y \in T : x <= y
  BY <1>2, LeastNatural
<1>4. x \in 0..n /\ x # 0 /\ x \notin H
  <2>1. x \in T BY <1>3
  <2>. QED BY <2>1, Zenon
<1>5. x - 1 \in 0..n /\ ~(x <= x - 1)
  BY <1>4
<1>6. x - 1 \in H
  BY <1>3, <1>5
<1>. QED BY <1>4, <1>6

\* f begins with x and takes the step G n times.
Takes(f, x, G, n) == f[0] = x /\ \A i \in 1..n : f[i] = G[f[i - 1]]

\* A step that is a function can be taken any number of times.
LEMMA Iterates ==
  ASSUME NEW S, NEW x \in S, NEW G \in [S -> S], NEW n \in Nat
  PROVE  \E f \in [0..n -> S] : Takes(f, x, G, n)
<1>. DEFINE H == {k \in 0..n : \E f \in [0..k -> S] : Takes(f, x, G, k)}
<1>1. 0 \in H
  <2>. DEFINE g == [i \in 0..0 |-> x]
  <2>1. Takes(g, x, G, 0) /\ g \in [0..0 -> S] /\ 0 \in 0..n
    BY DEF Takes
  <2>. HIDE DEF g
  <2>. QED BY <2>1
<1>2. ASSUME NEW k \in 0..n, k # 0, k - 1 \in H
      PROVE  k \in H
  <2>1. PICK f \in [0..(k - 1) -> S] : Takes(f, x, G, k - 1)
    BY <1>2
  <2>. DEFINE g == [i \in 0..k |-> IF i = k THEN G[f[k - 1]] ELSE f[i]]
  <2>2. f[k - 1] \in S
    BY <1>2
  <2>3. g \in [0..k -> S]
    BY <2>2
  <2>4. g[0] = x
    BY <1>2, <2>1 DEF Takes
  <2>5. ASSUME NEW i \in 1..k PROVE g[i] = G[g[i - 1]]
    <3>1. g[i - 1] = f[i - 1] OBVIOUS
    <3>2. CASE i = k BY <3>1, <3>2
    <3>3. CASE i # k BY <3>1, <3>3, <2>1 DEF Takes
    <3>. QED BY <3>2, <3>3
  <2>. HIDE DEF g
  <2>6. Takes(g, x, G, k) BY <2>4, <2>5 DEF Takes
  <2>. QED BY <2>3, <2>6
<1>. HIDE DEF H
<1>3. H \in SUBSET (0..n) BY DEF H
<1>4. H = 0..n BY <1>1, <1>2, <1>3, AllAlong
<1>5. n \in H BY <1>4
<1>. QED BY <1>5 DEF H
-----------------------------------------------------------------------------
(* The code's walk, and what a client can reach. *)

Places == 0..Last
Somewhere == Names \cup {NoName}

\* The walk along the CNAMEs of a response: a step from a name that is not
\* protected goes where its CNAME points (smartdns.go:205-225).
Walks(at, t, name, m) ==
  /\ at \in [Places -> Somewhere]
  /\ at[0] = name
  /\ \A i \in Places : i # 0 =>
       at[i] = IF at[i - 1] = NoName \/ at[i - 1] \in t THEN NoName
               ELSE m.alias[at[i - 1]]

LEMMA WalkIs ==
  ASSUME NEW t \in SUBSET Names, NEW name \in Names, NEW m \in Message
  PROVE  Walks(Walk(t, name, m), t, name, m)
<1>. DEFINE G == [n \in Somewhere |-> IF n = NoName \/ n \in t THEN NoName ELSE m.alias[n]]
            Rec(f) == f = [i \in Places |->
                             IF i = 0 THEN name
                             ELSE IF f[i - 1] = NoName \/ f[i - 1] \in t THEN NoName
                             ELSE m.alias[f[i - 1]]]
<1>1. m.alias \in [Names -> Somewhere]
  BY DEF Message, Somewhere
<1>2. G \in [Somewhere -> Somewhere] /\ name \in Somewhere
  BY <1>1 DEF Somewhere
<1>. HIDE DEF G
<1>3. PICK f \in [Places -> Somewhere] : Takes(f, name, G, Last)
  BY <1>2, LastNatural, Iterates DEF Places
<1>4. ASSUME NEW i \in Places
      PROVE  f[i] = IF i = 0 THEN name
                    ELSE IF f[i - 1] = NoName \/ f[i - 1] \in t THEN NoName
                    ELSE m.alias[f[i - 1]]
  <2>1. CASE i = 0 BY <2>1, <1>3 DEF Takes
  <2>2. CASE i # 0
    <3>1. i \in 1..Last /\ i - 1 \in Places BY <2>2, LastNatural DEF Places
    <3>2. f[i - 1] \in Somewhere BY <3>1, <1>3
    <3>. QED BY <2>2, <3>1, <3>2, <1>3 DEF G, Takes
  <2>. QED BY <2>1, <2>2
<1>5. Rec(f) BY <1>4
<1>6. Walk(t, name, m) = CHOOSE g : Rec(g)
  BY DEF Walk, Places, Last
<1>. HIDE DEF Rec
<1>7. Rec(Walk(t, name, m)) BY <1>5, <1>6, Zenon
<1>. DEFINE at == Walk(t, name, m)
<1>. HIDE DEF at
<1>8. at = [i \in Places |->
              IF i = 0 THEN name
              ELSE IF at[i - 1] = NoName \/ at[i - 1] \in t THEN NoName
              ELSE m.alias[at[i - 1]]]
  BY <1>7 DEF at, Rec
<1>9. 0 \in Places BY LastNatural DEF Places
<1>10. at[0] = name BY <1>8, <1>9
<1>11. \A i \in Places : i # 0 =>
         at[i] = IF at[i - 1] = NoName \/ at[i - 1] \in t THEN NoName
                 ELSE m.alias[at[i - 1]]
  <2>1. \A i \in Places : at[i] = IF i = 0 THEN name
                                ELSE IF at[i - 1] = NoName \/ at[i - 1] \in t THEN NoName
                                ELSE m.alias[at[i - 1]]
    BY <1>8, Zenon
  <2>. QED BY <2>1, Zenon
<1>. DEFINE H == {i \in Places : at[i] \in Somewhere}
<1>12. 0 \in H BY <1>9, <1>10 DEF Somewhere
<1>13. ASSUME NEW i \in Places, i # 0, i - 1 \in H PROVE i \in H
  BY <1>13, <1>11, <1>1 DEF Somewhere
<1>. HIDE DEF H
<1>14. H \in SUBSET Places BY DEF H
<1>15. H = Places BY <1>12, <1>13, <1>14, LastNatural, AllAlong DEF Places
<1>16. at \in [Places -> Somewhere]
  <2>1. \A i \in Places : at[i] \in Somewhere BY <1>15 DEF H
  <2>. QED BY <2>1, <1>8
<1>. QED BY <1>10, <1>11, <1>16 DEF at, Walks

\* The names reached in i steps.
LEMMA ReachIs ==
  ASSUME NEW alias \in [Names -> Somewhere], NEW name \in Names
  PROVE  LET upTo == ReachIn(alias, name) IN
         /\ upTo \in [Places -> SUBSET Names]
         /\ upTo[0] = {name}
         /\ \A i \in Places : i # 0 =>
              upTo[i] = upTo[i - 1] \cup ({alias[n] : n \in upTo[i - 1]} \ {NoName})
<1>. DEFINE G == [X \in SUBSET Names |-> X \cup ({alias[n] : n \in X} \ {NoName})]
            Rec(f) == f = [i \in Places |->
                             IF i = 0 THEN {name}
                             ELSE f[i - 1] \cup ({alias[n] : n \in f[i - 1]} \ {NoName})]
<1>1. G \in [SUBSET Names -> SUBSET Names] /\ {name} \in SUBSET Names
  <2>1. \A X \in SUBSET Names : X \cup ({alias[n] : n \in X} \ {NoName}) \in SUBSET Names
    BY DEF Somewhere
  <2>. QED BY <2>1
<1>. HIDE DEF G
<1>2. PICK f \in [Places -> SUBSET Names] : Takes(f, {name}, G, Last)
  BY <1>1, LastNatural, Iterates, Zenon DEF Places
<1>3. ASSUME NEW i \in Places
      PROVE  f[i] = IF i = 0 THEN {name}
                    ELSE f[i - 1] \cup ({alias[n] : n \in f[i - 1]} \ {NoName})
  <2>1. CASE i = 0 BY <2>1, <1>2 DEF Takes
  <2>2. CASE i # 0
    <3>1. i \in 1..Last /\ i - 1 \in Places BY <2>2, LastNatural DEF Places
    <3>2. f[i - 1] \in SUBSET Names BY <3>1, <1>2
    <3>3. G[f[i - 1]] = f[i - 1] \cup ({alias[n] : n \in f[i - 1]} \ {NoName})
      BY <3>2 DEF G
    <3>. QED BY <2>2, <3>1, <3>3, <1>2 DEF Takes
  <2>. QED BY <2>1, <2>2
<1>4. Rec(f) BY <1>3
<1>5. ReachIn(alias, name) = CHOOSE g : Rec(g)
  BY DEF ReachIn, Places, Last
<1>. HIDE DEF Rec
<1>6. Rec(ReachIn(alias, name)) BY <1>4, <1>5, Zenon
<1>. DEFINE upTo == ReachIn(alias, name)
<1>. HIDE DEF upTo
<1>7. upTo = [i \in Places |->
                IF i = 0 THEN {name}
                ELSE upTo[i - 1] \cup ({alias[n] : n \in upTo[i - 1]} \ {NoName})]
  BY <1>6 DEF upTo, Rec
<1>8. 0 \in Places BY LastNatural DEF Places
<1>9. upTo[0] = {name} BY <1>7, <1>8
<1>10. \A i \in Places : i # 0 =>
         upTo[i] = upTo[i - 1] \cup ({alias[n] : n \in upTo[i - 1]} \ {NoName})
  <2>1. \A i \in Places :
          upTo[i] = IF i = 0 THEN {name}
                    ELSE upTo[i - 1] \cup ({alias[n] : n \in upTo[i - 1]} \ {NoName})
    BY <1>7, Zenon
  <2>. QED BY <2>1, Zenon
<1>. DEFINE H == {i \in Places : upTo[i] \in SUBSET Names}
<1>11. 0 \in H BY <1>8, <1>9
<1>12. ASSUME NEW i \in Places, i # 0, i - 1 \in H PROVE i \in H
  <2>1. upTo[i - 1] \in SUBSET Names BY <1>12
  <2>2. upTo[i] \in SUBSET Names BY <2>1, <1>10, <1>12 DEF Somewhere
  <2>. QED BY <2>2
<1>. HIDE DEF H
<1>13. H \in SUBSET Places BY DEF H
<1>14. H = Places BY <1>11, <1>12, <1>13, LastNatural, AllAlong DEF Places
<1>15. upTo \in [Places -> SUBSET Names]
  <2>1. \A i \in Places : upTo[i] \in SUBSET Names BY <1>14 DEF H
  <2>. QED BY <2>1, <1>7
<1>. QED BY <1>9, <1>10, <1>15 DEF upTo

LEMMA VisitIs ==
  ASSUME NEW t \in SUBSET Names, NEW name \in Names, NEW m \in Message
  PROVE  \A n : n \in Visit(t, name, m) <=>
                  n # NoName /\ \E i \in Places : n = Walk(t, name, m)[i]
BY DEF Visit, Places, Last

\* Behind a protected name the walk does not go on.
LEMMA WalkStops ==
  ASSUME NEW t \in SUBSET Names, NEW name \in Names, NEW m \in Message, NEW j \in Places,
         Walk(t, name, m)[j] \in t \cup {NoName}
  PROVE  \A i \in Places : i > j => Walk(t, name, m)[i] = NoName
<1>. DEFINE at == Walk(t, name, m)
            H == {i \in Places : i <= j \/ at[i] = NoName}
<1>1. \A i \in Places : i # 0 =>
        at[i] = IF at[i - 1] = NoName \/ at[i - 1] \in t THEN NoName
                ELSE m.alias[at[i - 1]]
  BY WalkIs DEF Walks
<1>2. at[j] = NoName \/ at[j] \in t
  OBVIOUS
<1>. HIDE DEF at
<1>3. Places \in SUBSET Nat /\ 0 \in Places
  BY LastNatural DEF Places
<1>4. 0 \in H BY <1>3
<1>5. ASSUME NEW i \in Places, i # 0, i - 1 \in H PROVE i \in H
  <2>1. CASE i <= j BY <2>1
  <2>2. CASE i > j
    <3>1. i - 1 = j \/ i - 1 > j BY <2>2, <1>3
    <3>2. at[i - 1] = NoName \/ at[i - 1] \in t BY <3>1, <1>2, <1>3, <1>5
    <3>. QED BY <3>2, <1>1, <1>5
  <2>. QED BY <2>1, <2>2, <1>3
<1>. HIDE DEF H
<1>6. H \in SUBSET Places BY DEF H
<1>7. H = Places BY <1>4, <1>5, <1>6, LastNatural, AllAlong DEF Places
<1>8. ASSUME NEW i \in Places, i > j PROVE at[i] = NoName
  BY <1>3, <1>7, <1>8 DEF H
<1>. QED BY <1>8 DEF at

\* A chain that the CNAMEs have is followed to its end.
LEMMA ChainReached ==
  ASSUME NEW alias \in [Names -> Somewhere], NEW name \in Names,
         NEW at \in [Places -> Somewhere], NEW k \in Places, at[0] = name,
         \A j \in Places : j < k => at[j] # NoName /\ alias[at[j]] = at[j + 1],
         at[k] # NoName
  PROVE  at[k] \in Reach(alias, name)
<1>. DEFINE upTo == ReachIn(alias, name)
            H == {i \in Places : IF i <= k THEN at[i] \in upTo[i] ELSE at[k] \in upTo[i]}
<1>1. /\ upTo \in [Places -> SUBSET Names] /\ upTo[0] = {name}
      /\ \A i \in Places : i # 0 =>
           upTo[i] = upTo[i - 1] \cup ({alias[n] : n \in upTo[i - 1]} \ {NoName})
  BY ReachIs
<1>. HIDE DEF upTo
<1>2. Places \in SUBSET Nat /\ 0 \in Places /\ Last \in Places
      /\ \A i \in Places : i # 0 => i - 1 \in Places
  BY LastNatural DEF Places
<1>3. 0 \in H BY <1>1, <1>2
<1>4. ASSUME NEW i \in Places, i # 0, i - 1 \in H PROVE i \in H
  <2>1. upTo[i] = upTo[i - 1] \cup ({alias[n] : n \in upTo[i - 1]} \ {NoName})
    BY <1>1, <1>4
  <2>2. CASE i <= k
    <3>1. i - 1 < k /\ i - 1 <= k /\ (i - 1) + 1 = i /\ i - 1 \in Places
      BY <2>2, <1>2, <1>4
    <3>2. at[i - 1] \in upTo[i - 1] BY <3>1, <1>4
    <3>3. alias[at[i - 1]] = at[i] BY <3>1
    <3>4. at[i] # NoName
      <4>1. CASE i = k BY <4>1
      <4>2. CASE i < k BY <4>2
      <4>. QED BY <4>1, <4>2, <2>2, <1>2
    <3>5. at[i] \in upTo[i] BY <2>1, <3>2, <3>3, <3>4, Zenon
    <3>. QED BY <2>2, <3>5
  <2>3. CASE ~(i <= k)
    <3>1. at[k] \in upTo[i - 1]
      <4>1. i - 1 = k \/ ~(i - 1 <= k) BY <2>3, <1>2
      <4>. QED BY <4>1, <1>2, <1>4
    <3>. QED BY <2>1, <2>3, <3>1
  <2>. QED BY <2>2, <2>3
<1>. HIDE DEF H
<1>5. H \in SUBSET Places BY DEF H
<1>6. H = Places BY <1>3, <1>4, <1>5, LastNatural, AllAlong DEF Places
<1>7. at[k] \in upTo[Last]
  <2>1. Last \in H /\ k <= Last
    BY <1>2, <1>6, LastNatural DEF Places
  <2>2. Last <= k => Last = k
    BY <2>1, <1>2
  <2>. QED BY <2>1, <2>2 DEF H
<1>. QED BY <1>7 DEF Reach, upTo, Last

\* What a client reaches is where steps from name lead: it stays in a set of names
\* that is closed under the CNAMEs.
LEMMA ReachWithin ==
  ASSUME NEW alias \in [Names -> Somewhere], NEW name \in Names, NEW X \in SUBSET Names,
         name \in X, \A n \in X : alias[n] \in X \cup {NoName}
  PROVE  Reach(alias, name) \subseteq X
<1>. DEFINE upTo == ReachIn(alias, name)
            H == {i \in Places : upTo[i] \subseteq X}
<1>1. /\ upTo \in [Places -> SUBSET Names] /\ upTo[0] = {name}
      /\ \A i \in Places : i # 0 =>
           upTo[i] = upTo[i - 1] \cup ({alias[n] : n \in upTo[i - 1]} \ {NoName})
  BY ReachIs
<1>. HIDE DEF upTo
<1>2. 0 \in Places /\ Last \in Places BY LastNatural DEF Places
<1>3. 0 \in H BY <1>1, <1>2
<1>4. ASSUME NEW i \in Places, i # 0, i - 1 \in H PROVE i \in H
  <2>1. upTo[i - 1] \subseteq X BY <1>4
  <2>2. upTo[i] \subseteq X BY <2>1, <1>1, <1>4
  <2>. QED BY <2>2
<1>. HIDE DEF H
<1>5. H \in SUBSET Places BY DEF H
<1>6. H = Places BY <1>3, <1>4, <1>5, LastNatural, AllAlong DEF Places
<1>7. upTo[Last] \subseteq X BY <1>2, <1>6 DEF H
<1>. QED BY <1>7 DEF Reach, upTo, Last
-----------------------------------------------------------------------------
(* What Resolve makes of a response. *)

\* If the walk comes to no protected name, no client does: what can be reached in
\* i steps, the walk has visited by then.
LEMMA NothingProtected ==
  ASSUME NEW t \in SUBSET Names, NEW name \in Names, NEW m \in Message,
         Visit(t, name, m) \cap t = {}
  PROVE  Reach(m.alias, name) \cap t = {}
<1>. DEFINE at == Walk(t, name, m)
            upTo == ReachIn(m.alias, name)
            H == {i \in Places : \A n \in upTo[i] : \E j \in Places : j <= i /\ at[j] = n}
<1>1. m.alias \in [Names -> Somewhere] BY DEF Message, Somewhere
<1>2. /\ at \in [Places -> Somewhere] /\ at[0] = name
      /\ \A i \in Places : i # 0 =>
           at[i] = IF at[i - 1] = NoName \/ at[i - 1] \in t THEN NoName
                   ELSE m.alias[at[i - 1]]
  <2>1. Walks(at, t, name, m) BY WalkIs
  <2>. HIDE DEF at
  <2>. QED BY <2>1 DEF Walks
<1>3. /\ upTo \in [Places -> SUBSET Names] /\ upTo[0] = {name}
      /\ \A i \in Places : i # 0 =>
           upTo[i] = upTo[i - 1] \cup ({m.alias[n] : n \in upTo[i - 1]} \ {NoName})
  BY <1>1, ReachIs
<1>4. \A i \in Places : at[i] = NoName \/ at[i] \notin t
  BY VisitIs
<1>. HIDE DEF at, upTo
<1>5. Places \in SUBSET Nat /\ 0 \in Places /\ Last \in Places
      /\ \A i \in Places : i # 0 => i - 1 \in Places
  BY LastNatural DEF Places
<1>6. 0 \in H BY <1>2, <1>3, <1>5
<1>7. ASSUME NEW i \in Places, i # 0, i - 1 \in H PROVE i \in H
  <2>1. ASSUME NEW n \in upTo[i] PROVE \E j \in Places : j <= i /\ at[j] = n
    <3>1. CASE n \in upTo[i - 1]
      <4>1. PICK j \in Places : j <= i - 1 /\ at[j] = n BY <3>1, <1>7
      <4>2. j <= i BY <4>1, <1>5
      <4>. QED BY <4>1, <4>2
    <3>2. CASE n \notin upTo[i - 1]
      <4>1. PICK o \in upTo[i - 1] : n = m.alias[o] BY <3>2, <2>1, <1>3, <1>7
      <4>2. PICK j \in Places : j <= i - 1 /\ at[j] = o BY <1>7
      <4>3. o \in Names /\ o # NoName
        BY <1>3, <1>5, <1>7, SmartDNSAssumption
      <4>4. j + 1 \in Places /\ j + 1 # 0 /\ (j + 1) - 1 = j /\ j + 1 <= i
        BY <4>2, <1>5, <1>7, LastNatural DEF Places
      <4>5. at[j + 1] = n BY <4>1, <4>2, <4>3, <4>4, <1>2, <1>4
      <4>. QED BY <4>4, <4>5
    <3>. QED BY <3>1, <3>2
  <2>. QED BY <2>1
<1>. HIDE DEF H
<1>8. H \in SUBSET Places BY DEF H
<1>9. H = Places BY <1>6, <1>7, <1>8, LastNatural, AllAlong DEF Places
<1>10. ASSUME NEW n \in upTo[Last] PROVE n \notin t
  <2>1. PICK j \in Places : at[j] = n BY <1>5, <1>9 DEF H
  <2>2. n \in Names BY <1>3, <1>5
  <2>. QED BY <2>1, <2>2, <1>4, SmartDNSAssumption
<1>11. Reach(m.alias, name) = upTo[Last] BY DEF Reach, upTo, Last
<1>. QED BY <1>10, <1>11

\* The name itself is reached.
LEMMA NameReached ==
  ASSUME NEW alias \in [Names -> Somewhere], NEW name \in Names
  PROVE  name \in Reach(alias, name)
<1>. DEFINE at == [i \in Places |-> name]
<1>1. 0 \in Places /\ \A j \in Places : ~(j < 0)
  BY LastNatural DEF Places
<1>2. /\ at \in [Places -> Somewhere] /\ at[0] = name /\ name # NoName
  BY <1>1, SmartDNSAssumption DEF Somewhere
<1>. HIDE DEF at
<1>. QED BY <1>1, <1>2, ChainReached

LEMMA OwnReach ==
  ASSUME NEW name \in Names
  PROVE  Reach(NoAlias, name) = {name}
<1>1. NoAlias \in [Names -> Somewhere] /\ \A n \in Names : NoAlias[n] = NoName
  BY DEF NoAlias, Somewhere
<1>2. Reach(NoAlias, name) \subseteq {name}
  <2>. DEFINE X == {name}
  <2>1. X \in SUBSET Names /\ name \in X /\ \A n \in X : NoAlias[n] \in X \cup {NoName}
    BY <1>1
  <2>. HIDE DEF X
  <2>2. Reach(NoAlias, name) \subseteq X BY <2>1, <1>1, ReachWithin
  <2>. QED BY <2>2 DEF X
<1>. QED BY <1>1, <1>2, NameReached

\* If the walk comes to a protected name, it is the only one it visits, a client
\* that follows the response comes to it, and one that follows the redirected
\* answer comes to what the walk has visited and to nothing else.
LEMMA OneProtected ==
  ASSUME NEW t \in SUBSET Names, NEW name \in Names, NEW m \in Message,
         Visit(t, name, m) \cap t # {}, NEW type \in Types
  PROVE  \E n \in t : /\ Visit(t, name, m) \cap t = {n}
                      /\ n \in Reach(m.alias, name)
                      /\ Reach(Redirect(t, name, type, m).alias, name) \cap t = {n}
<1>. DEFINE at == Walk(t, name, m)
            seen == Visit(t, name, m)
            cut == Redirect(t, name, type, m).alias
<1>1. m.alias \in [Names -> Somewhere] BY DEF Message, Somewhere
<1>2. /\ at \in [Places -> Somewhere] /\ at[0] = name
      /\ \A i \in Places : i # 0 =>
           at[i] = IF at[i - 1] = NoName \/ at[i - 1] \in t THEN NoName
                   ELSE m.alias[at[i - 1]]
  <2>1. Walks(at, t, name, m) BY WalkIs
  <2>. HIDE DEF at
  <2>. QED BY <2>1 DEF Walks
<1>3. \A n : n \in seen <=> n # NoName /\ \E i \in Places : n = at[i]
  BY VisitIs
<1>4. cut = [n \in Names |-> IF n \in seen \ t THEN m.alias[n] ELSE NoName]
  BY DEF Redirect, Error
<1>5. \A j \in Places : at[j] \in t \cup {NoName} =>
        \A i \in Places : i > j => at[i] = NoName
  BY WalkStops
<1>. HIDE DEF at, seen, cut
<1>6. NoName \notin t BY SmartDNSAssumption
<1>7. /\ Places \in SUBSET Nat /\ 0 \in Places
      /\ \A i, j \in Places : j < i => j + 1 \in Places /\ j + 1 # 0 /\ (j + 1) - 1 = j
      /\ \A i, j \in Places : i < j \/ j < i \/ i = j
  BY LastNatural DEF Places
<1>8. PICK k \in Places : at[k] \in t
  <2>1. PICK n : n \in seen /\ n \in t BY DEF seen
  <2>. QED BY <2>1, <1>3
<1>9. \A j \in Places : j < k => at[j] \in Names /\ at[j] \notin t /\ at[j] # NoName
  <2>1. ASSUME NEW j \in Places, j < k, at[j] \in t \cup {NoName} PROVE FALSE
    <3>1. k > j BY <2>1, <1>7
    <3>. QED BY <3>1, <2>1, <1>5, <1>6, <1>8
  <2>2. \A j \in Places : at[j] \in Names \cup {NoName} BY <1>2 DEF Somewhere
  <2>. QED BY <2>1, <2>2
<1>10. \A j \in Places : k < j => at[j] = NoName
  <2>1. \A j \in Places : k < j => j > k BY <1>7
  <2>. QED BY <2>1, <1>5, <1>8
<1>11. \A j \in Places : j < k => j + 1 \in Places /\ at[j + 1] = m.alias[at[j]]
  BY <1>2, <1>7, <1>9
<1>12. seen \cap t = {at[k]}
  <2>1. at[k] \in seen /\ at[k] \in t BY <1>3, <1>6, <1>8
  <2>2. ASSUME NEW n \in seen, n \in t PROVE n = at[k]
    <3>1. PICK i \in Places : n = at[i] BY <1>3
    <3>. QED BY <3>1, <2>2, <1>6, <1>7, <1>9, <1>10
  <2>. QED BY <2>1, <2>2
<1>13. at[k] # NoName BY <1>6, <1>8
<1>14. at[k] \in Reach(m.alias, name)
  BY <1>1, <1>2, <1>9, <1>11, <1>13, ChainReached
<1>15. \A j \in Places : j < k => at[j] \in seen \ t BY <1>3, <1>9
<1>16. cut \in [Names -> Somewhere]
  BY <1>1, <1>4 DEF Somewhere
<1>17. at[k] \in Reach(cut, name)
  <2>1. \A j \in Places : j < k => cut[at[j]] = at[j + 1]
    BY <1>4, <1>9, <1>11, <1>15
  <2>. QED BY <2>1, <1>2, <1>9, <1>13, <1>16, ChainReached
<1>18. Reach(cut, name) \subseteq seen
  <2>1. seen \in SUBSET Names BY <1>2, <1>3 DEF Somewhere
  <2>2. name \in seen BY <1>2, <1>3, <1>7, SmartDNSAssumption
  <2>3. ASSUME NEW n \in seen PROVE cut[n] \in seen \cup {NoName}
    <3>1. n \in Names BY <2>1
    <3>2. CASE n \in t BY <3>1, <3>2, <1>4
    <3>3. CASE n \notin t
      <4>1. PICK j \in Places : n = at[j] BY <1>3
      <4>2. n # NoName BY <1>3
      <4>3. j < k BY <4>1, <4>2, <3>3, <1>7, <1>8, <1>10
      <4>4. cut[n] = at[j + 1] /\ j + 1 \in Places BY <4>1, <4>3, <3>1, <3>3, <1>4, <1>11
      <4>. QED BY <4>4, <1>3
    <3>. QED BY <3>2, <3>3
  <2>. QED BY <2>1, <2>2, <2>3, <1>16, ReachWithin
<1>19. Reach(cut, name) \cap t = {at[k]}
  BY <1>8, <1>12, <1>17, <1>18
<1>. QED BY <1>8, <1>12, <1>14, <1>19 DEF seen, cut

\* The answers Resolve makes up are responses.
LEMMA AnswerTypes ==
  ASSUME NEW t \in SUBSET Names, NEW name \in Names, NEW type \in Types, NEW m \in Message
  PROVE  /\ Error \in Message /\ Error.local = {}
         /\ Own(name, type) \in Message
         /\ Redirect(t, name, type, m) \in Message
         /\ Sanitize(t, name, type, m) \in Message
<1>1. NoAlias \in [Names -> Names \cup {NoName}] BY DEF NoAlias
<1>2. Error \in Message /\ Error.local = {} BY <1>1 DEF Error, Message
<1>3. Own(name, type) \in Message BY <1>1 DEF Own, Error, Message
<1>. DEFINE seen == Visit(t, name, m)
            cut == [n \in Names |-> IF n \in seen \ t THEN m.alias[n] ELSE NoName]
<1>. HIDE DEF seen
<1>4. cut \in [Names -> Names \cup {NoName}] BY DEF Message
<1>. HIDE DEF cut
<1>5. Redirect(t, name, type, m)
        = [Error EXCEPT !.alias = cut, !.local = IF type = "addr" THEN seen \cap t ELSE {},
                        !.signed = FALSE]
  BY DEF Redirect, cut, seen
<1>6. Redirect(t, name, type, m) \in Message
  BY <1>1, <1>4, <1>5 DEF Error, Message
<1>7. [m EXCEPT !.extra = @ \ t, !.signed = @ /\ m.extra \cap t = {}] \in Message
  BY DEF Message
<1>. QED BY <1>2, <1>3, <1>6, <1>7 DEF Sanitize

\* Own and Redirect give local addresses and no others, unsigned.
LEMMA OwnFields ==
  ASSUME NEW name, NEW type
  PROVE  LET a == Own(name, type) IN
         /\ a.alias = NoAlias /\ a.direct = {} /\ a.extra = {} /\ ~a.signed
         /\ a.local = IF type = "addr" THEN {name} ELSE {}
BY DEF Own, Error

LEMMA RedirectFields ==
  ASSUME NEW t, NEW name, NEW type, NEW m
  PROVE  LET a == Redirect(t, name, type, m) IN
         /\ a.direct = {} /\ a.extra = {} /\ ~a.signed
         /\ a.local = IF type = "addr" THEN Visit(t, name, m) \cap t ELSE {}
         /\ \A n \in Names : a.alias[n] \in {m.alias[n], NoName}
BY DEF Redirect, Error

\* The two ways to obey the table.
LEMMA AllowedLocal ==
  ASSUME NEW t, NEW c, NEW m, NEW a, NEW n \in t,
         LocalType(c.type), Reach(m.alias, c.name) \cap t # {},
         a.direct = {}, a.extra = {}, ~a.signed,
         Reach(a.alias, c.name) \cap t = {n},
         a.local = IF c.type = "addr" THEN {n} ELSE {},
         \A o \in Names : a.alias[o] \in {m.alias[o], NoName}
  PROVE  Allowed(t, c, m, a)
BY DEF Allowed

LEMMA AllowedOther ==
  ASSUME NEW t, NEW c, NEW m, NEW a,
         ~(LocalType(c.type) /\ Reach(m.alias, c.name) \cap t # {}),
         a.alias = m.alias, a.direct = m.direct, a.local = {},
         a.extra = m.extra \ t, a.signed <=> m.signed /\ a.extra = m.extra
  PROVE  Allowed(t, c, m, a)
BY DEF Allowed

\* A response is answered as the table demands, whatever chain it has
\* (smartdns.go:170-271).
LEMMA VerdictObeys ==
  ASSUME NEW t \in SUBSET Names, NEW c \in Client, c.reply.local = {}, c.reply # Error
  PROVE  Allowed(t, c, c.reply, Verdict(t, c))
<1>. DEFINE m == c.reply
<1>1. c.name \in Names /\ c.type \in Types /\ m \in Message
  BY DEF Client
<1>2. m.local = {} /\ m # Error
  OBVIOUS
<1>3. m.alias \in [Names -> Somewhere] BY <1>1 DEF Message, Somewhere
<1>4. Verdict(t, c) = IF Local(t, c.name, c.type) THEN Own(c.name, c.type)
                      ELSE Sanitize(t, c.name, c.type, m)
  BY <1>2 DEF Verdict
<1>. SUFFICES Allowed(t, c, m, Verdict(t, c))
  OBVIOUS
<1>. HIDE DEF m
<1>5. CASE Local(t, c.name, c.type)
  <2>. DEFINE a == Own(c.name, c.type)
  <2>1. LocalType(c.type) /\ c.name \in t BY <1>5 DEF Local
  <2>2. c.name \in Reach(m.alias, c.name) BY <1>1, <1>3, NameReached
  <2>3. Reach(m.alias, c.name) \cap t # {} BY <2>1, <2>2
  <2>4. Verdict(t, c) = a BY <1>4, <1>5
  <2>5. /\ a.alias = NoAlias /\ a.direct = {} /\ a.extra = {} /\ ~a.signed
        /\ a.local = IF c.type = "addr" THEN {c.name} ELSE {}
    BY OwnFields
  <2>. HIDE DEF a
  <2>6. Reach(a.alias, c.name) \cap t = {c.name}
    <3>1. Reach(NoAlias, c.name) = {c.name} BY <1>1, OwnReach
    <3>. QED BY <3>1, <2>1, <2>5
  <2>7. \A n \in Names : a.alias[n] \in {m.alias[n], NoName}
    BY <2>5 DEF NoAlias
  <2>. QED BY <2>1, <2>3, <2>4, <2>5, <2>6, <2>7, AllowedLocal
<1>6. CASE ~Local(t, c.name, c.type) /\ LocalType(c.type) /\ Visit(t, c.name, m) \cap t # {}
  <2>. DEFINE a == Redirect(t, c.name, c.type, m)
  <2>1. Verdict(t, c) = a BY <1>4, <1>6 DEF Sanitize
  <2>2. PICK n \in t : /\ Visit(t, c.name, m) \cap t = {n}
                       /\ n \in Reach(m.alias, c.name)
                       /\ Reach(a.alias, c.name) \cap t = {n}
    BY <1>1, <1>6, OneProtected
  <2>3. Reach(m.alias, c.name) \cap t # {} BY <2>2
  <2>4. /\ a.direct = {} /\ a.extra = {} /\ ~a.signed
        /\ a.local = IF c.type = "addr" THEN Visit(t, c.name, m) \cap t ELSE {}
        /\ \A o \in Names : a.alias[o] \in {m.alias[o], NoName}
    BY RedirectFields
  <2>. HIDE DEF a
  <2>5. a.local = IF c.type = "addr" THEN {n} ELSE {} BY <2>2, <2>4
  <2>. QED BY <1>6, <2>1, <2>2, <2>3, <2>4, <2>5, AllowedLocal
<1>7. CASE ~Local(t, c.name, c.type) /\ ~(LocalType(c.type) /\ Visit(t, c.name, m) \cap t # {})
  <2>. DEFINE a == [m EXCEPT !.extra = @ \ t, !.signed = @ /\ m.extra \cap t = {}]
  <2>1. Verdict(t, c) = a BY <1>4, <1>7 DEF Sanitize
  <2>2. ~(LocalType(c.type) /\ Reach(m.alias, c.name) \cap t # {})
    BY <1>1, <1>7, NothingProtected
  <2>3. /\ a.alias = m.alias /\ a.direct = m.direct /\ a.local = m.local
        /\ a.extra = m.extra \ t /\ a.signed = (m.signed /\ m.extra \cap t = {})
    BY <1>1 DEF Message
  <2>4. m.extra \ t = m.extra <=> m.extra \cap t = {}
    OBVIOUS
  <2>5. a.signed <=> m.signed /\ a.extra = m.extra
    BY <2>3, <2>4
  <2>. HIDE DEF a
  <2>. QED BY <1>2, <2>1, <2>2, <2>3, <2>5, AllowedOther
<1>. QED BY <1>5, <1>6, <1>7

-----------------------------------------------------------------------------
(* The invariant, and what follows from it. *)

\* A client that is about to look a second time has a reply without local
\* addresses, and the table of now is among those since its reply.
SecondReady ==
  \A p \in Clients : At(p, "second") =>
    table \in client[p].inForce /\ client[p].reply.local = {}

Inv == TypeOK /\ SecondReady

LEMMA ConstantFacts ==
  /\ Tables \subseteq SUBSET Names /\ Broken \notin Tables
  /\ Error \in Message /\ Error.local = {}
  /\ \A m \in Replies : m \in Message /\ m.local = {}
  /\ Idle \in Client /\ Idle.pc = "idle"
<1>1. Somebody \in Names BY SmartDNSAssumption DEF Somebody
<1>2. Error \in Message /\ Error.local = {}
  BY DEF Error, Message, NoAlias
<1>3. \A m \in Replies : m \in Message /\ m.local = {}
  BY SmartDNSAssumption
<1>4. Idle \in Client /\ Idle.pc = "idle"
  BY <1>1, <1>2 DEF Idle, Client, Types
<1>. QED BY <1>2, <1>3, <1>4, SmartDNSAssumption

\* A step of one client.
LEMMA ClientMoves ==
  ASSUME Inv, NEW p \in Clients, NEW r \in Client, Becomes(p, r), UNCHANGED reload,
         r.pc = "second" => table \in r.inForce /\ r.reply.local = {}
  PROVE  Inv'
<1>1. /\ client' \in [Clients -> Client] /\ client'[p] = r
      /\ \A q \in Clients : q # p => client'[q] = client[q]
  BY DEF Inv, TypeOK, Becomes
<1>2. TypeOK' BY <1>1 DEF Inv, TypeOK, reload
<1>3. SecondReady'
  <2>1. ASSUME NEW q \in Clients, client'[q].pc = "second"
        PROVE  table' \in client'[q].inForce /\ client'[q].reply.local = {}
    <3>1. CASE q = p BY <3>1, <2>1, <1>1 DEF reload
    <3>2. CASE q # p BY <3>2, <2>1, <1>1 DEF reload, Inv, SecondReady, At
    <3>. QED BY <3>1, <3>2
  <2>. QED BY <2>1 DEF SecondReady, At
<1>. QED BY <1>2, <1>3 DEF Inv

LEMMA VerdictType ==
  ASSUME Inv, NEW c \in Client
  PROVE  Verdict(table, c) \in Message
<1>1. table \in SUBSET Names BY ConstantFacts DEF Inv, TypeOK
<1>2. c.name \in Names /\ c.type \in Types /\ c.reply \in Message BY DEF Client
<1>. QED BY <1>1, <1>2, AnswerTypes DEF Verdict

LEMMA InvStep ==
  ASSUME Inv, [Next]_vars
  PROVE  Inv'
<1>1. ASSUME UNCHANGED vars PROVE Inv'
  BY <1>1 DEF Inv, TypeOK, SecondReady, At, vars, reload
<1>2. ASSUME NEW p \in Clients, NEW n \in Names, NEW type \in Types, Ask(p, n, type)
      PROVE  Inv'
  <2>. DEFINE r == [Idle EXCEPT !.pc = "first", !.name = n, !.type = type]
  <2>1. r \in Client /\ r.pc = "first" BY ConstantFacts DEF Client
  <2>. HIDE DEF r
  <2>2. Becomes(p, r) /\ UNCHANGED reload BY <1>2 DEF Ask, r
  <2>. QED BY <2>1, <2>2, ClientMoves
<1>3. ASSUME NEW p \in Clients, FirstLook(p) PROVE Inv'
  <2>. DEFINE r == IF Local(table, client[p].name, client[p].type)
                   THEN [Idle EXCEPT !.pc = "done"]
                   ELSE [client[p] EXCEPT !.pc = "next", !.early = table]
  <2>1. client[p] \in Client /\ table \in Tables BY DEF Inv, TypeOK
  <2>2. [Idle EXCEPT !.pc = "done"] \in Client /\ [Idle EXCEPT !.pc = "done"].pc = "done"
    BY ConstantFacts DEF Client
  <2>3. /\ [client[p] EXCEPT !.pc = "next", !.early = table] \in Client
        /\ [client[p] EXCEPT !.pc = "next", !.early = table].pc = "next"
    BY <2>1 DEF Client
  <2>4. r \in Client /\ r.pc # "second" BY <2>2, <2>3
  <2>. HIDE DEF r
  <2>5. Becomes(p, r) /\ UNCHANGED reload BY <1>3 DEF FirstLook, r
  <2>. QED BY <2>4, <2>5, ClientMoves
<1>4. ASSUME NEW p \in Clients, NEW m \in Replies \cup {Error}, NextReplies(p, m)
      PROVE  Inv'
  <2>. DEFINE r == [client[p] EXCEPT !.pc = "second", !.reply = m, !.inForce = {table}]
  <2>1. client[p] \in Client /\ table \in Tables BY DEF Inv, TypeOK
  <2>2. m \in Message /\ m.local = {} BY ConstantFacts
  <2>3. r \in Client /\ r.inForce = {table} /\ r.reply = m
    BY <2>1, <2>2 DEF Client
  <2>. HIDE DEF r
  <2>4. Becomes(p, r) /\ UNCHANGED reload BY <1>4 DEF NextReplies, r
  <2>. QED BY <2>2, <2>3, <2>4, ClientMoves
<1>5. ASSUME NEW p \in Clients, SecondLook(p) PROVE Inv'
  <2>. DEFINE r == [Idle EXCEPT !.pc = "done", !.reply = Verdict(table, client[p])]
  <2>1. Verdict(table, client[p]) \in Message BY VerdictType DEF Inv, TypeOK
  <2>2. r \in Client /\ r.pc = "done" BY <2>1, ConstantFacts DEF Client
  <2>. HIDE DEF r
  <2>3. Becomes(p, r) /\ UNCHANGED reload BY <1>5 DEF SecondLook, r
  <2>. QED BY <2>2, <2>3, ClientMoves
<1>6. ASSUME UNCHANGED <<table, client>>, file' \in Tables \cup {Broken},
             read' \in Tables \cup {Broken}, pending' \in BOOLEAN, asked' \in BOOLEAN,
             reloader' \in {"waiting", "loading", "storing"}
      PROVE  Inv'
  BY <1>6 DEF Inv, TypeOK, SecondReady, At
<1>7. ASSUME \/ \E f \in Tables \cup {Broken} : EditFile(f)
             \/ Sighup \/ TakeSignal \/ LoadFile
      PROVE  Inv'
  BY <1>6, <1>7 DEF EditFile, Sighup, TakeSignal, LoadFile, Inv, TypeOK
<1>8. CASE Publish
  <2>1. /\ table \in Tables /\ read \in Tables \cup {Broken}
        /\ client \in [Clients -> Client]
    BY DEF Inv, TypeOK
  <2>2. table' \in Tables BY <1>8, <2>1 DEF Publish
  <2>3. ASSUME NEW p \in Clients
        PROVE  /\ client'[p] \in Client
               /\ client'[p].pc = "second" =>
                    table' \in client'[p].inForce /\ client'[p].reply.local = {}
    <3>1. client[p] \in Client BY <2>1
    <3>2. CASE At(p, "second")
      <4>. DEFINE r == [client[p] EXCEPT !.inForce = @ \cup {table'}]
      <4>1. client'[p] = r BY <1>8, <3>2 DEF Publish
      <4>2. r \in Client /\ table' \in r.inForce /\ r.reply = client[p].reply
        BY <3>1, <2>2 DEF Client
      <4>3. client[p].reply.local = {} BY <3>2 DEF Inv, SecondReady
      <4>. HIDE DEF r
      <4>. QED BY <4>1, <4>2, <4>3
    <3>3. CASE ~At(p, "second")
      <4>1. client'[p] = client[p] BY <1>8, <3>3 DEF Publish
      <4>. QED BY <4>1, <3>1, <3>3 DEF At
    <3>. QED BY <3>2, <3>3
  <2>4. client' \in [Clients -> Client]
    <3>1. client' = [p \in Clients |-> client'[p]] BY <1>8 DEF Publish
    <3>. QED BY <3>1, <2>3
  <2>5. TypeOK' BY <1>8, <2>2, <2>4 DEF Publish, Inv, TypeOK
  <2>6. SecondReady' BY <2>3 DEF SecondReady, At
  <2>. QED BY <2>5, <2>6 DEF Inv
<1>. QED BY <1>1, <1>2, <1>3, <1>4, <1>5, <1>7, <1>8 DEF Next, ReloadStep

LEMMA InvInit == Init => Inv
<1>. SUFFICES ASSUME Init PROVE Inv
  OBVIOUS
<1>1. \A p \in Clients : client[p] = Idle BY DEF Init
<1>2. TypeOK BY ConstantFacts DEF Init, TypeOK
<1>3. SecondReady BY <1>1, ConstantFacts DEF SecondReady, At
<1>. QED BY <1>2, <1>3 DEF Inv

LEMMA Invariance == Spec => []Inv
<1>1. Inv /\ [Next]_vars => Inv' BY InvStep
<1>. QED BY <1>1, InvInit, PTL DEF Spec

\* Every variable keeps its type; that an answer made of another one is a response
\* again, with CNAMEs between names only, is the part that could fail.
THEOREM AnswersAreResponses == Spec => []TypeOK
<1>1. Inv => TypeOK BY DEF Inv
<1>. QED BY <1>1, Invariance, PTL

\* A fetched answer obeys, as a whole, a table that was in force after the reply had
\* come, though tables are published at any time (smartdns.go:105-106, 170-271).
THEOREM OneTableRules == Spec => CurrentPolicy
<1>. DEFINE Obeys(p) ==
       At(p, "second") /\ client'[p].pc = "done" =>
         \E t \in client[p].inForce :
           IF client[p].reply = Error
           THEN client'[p].reply = IF Local(t, client[p].name, client[p].type)
                                   THEN Own(client[p].name, client[p].type) ELSE Error
           ELSE Allowed(t, client[p], client[p].reply, client'[p].reply)
<1>1. Inv /\ [Next]_vars => [\A p \in Clients : Obeys(p)]_vars
  <2>. SUFFICES ASSUME Inv, Next, NEW p \in Clients,
                       At(p, "second"), client'[p].pc = "done"
                PROVE  Obeys(p)
    OBVIOUS
  <2>1. client \in [Clients -> Client] /\ table \in SUBSET Names
    BY ConstantFacts DEF Inv, TypeOK
  <2>2. table \in client[p].inForce /\ client[p].reply.local = {}
    BY DEF Inv, SecondReady
  <2>3. SecondLook(p)
    <3>1. ASSUME client'[p] = client[p] PROVE FALSE
      BY <3>1 DEF At
    <3>2. ASSUME NEW q \in Clients, q # p, NEW r, Becomes(q, r) PROVE FALSE
      BY <3>1, <3>2, <2>1 DEF Becomes
    <3>3. ASSUME NEW q \in Clients,
                 \/ \E n \in Names, type \in Types : Ask(q, n, type)
                 \/ FirstLook(q)
                 \/ \E m \in Replies \cup {Error} : NextReplies(q, m)
          PROVE  FALSE
      <4>1. q = p BY <3>2, <3>3 DEF Ask, FirstLook, NextReplies
      <4>. QED BY <3>3, <4>1 DEF Ask, FirstLook, NextReplies, At
    <3>4. ASSUME \/ \E f \in Tables \cup {Broken} : EditFile(f)
                 \/ Sighup \/ TakeSignal \/ LoadFile
          PROVE  FALSE
      BY <3>1, <3>4 DEF EditFile, Sighup, TakeSignal, LoadFile
    <3>5. ASSUME Publish PROVE FALSE
      <4>1. client'[p] = [client[p] EXCEPT !.inForce = @ \cup {table'}]
        BY <3>5 DEF Publish
      <4>2. client'[p].pc = "second" BY <4>1, <2>1 DEF At, Client
      <4>. QED BY <4>2
    <3>6. ASSUME NEW q \in Clients, SecondLook(q) PROVE q = p
      BY <3>2, <3>6 DEF SecondLook
    <3>. QED BY <3>3, <3>4, <3>5, <3>6 DEF Next, ReloadStep
  <2>4. client'[p].reply = Verdict(table, client[p])
    <3>1. client'[p] = [Idle EXCEPT !.pc = "done", !.reply = Verdict(table, client[p])]
      BY <2>1, <2>3 DEF SecondLook, Becomes
    <3>. QED BY <3>1 DEF Idle
  <2>5. CASE client[p].reply = Error
    <3>1. Verdict(table, client[p])
            = IF Local(table, client[p].name, client[p].type)
              THEN Own(client[p].name, client[p].type) ELSE Error
      BY <2>5 DEF Verdict
    <3>. QED BY <2>2, <2>4, <2>5, <3>1
  <2>6. CASE client[p].reply # Error
    <3>1. Allowed(table, client[p], client[p].reply, Verdict(table, client[p]))
      BY <2>1, <2>2, <2>6, VerdictObeys
    <3>. QED BY <2>2, <2>4, <2>6, <3>1
  <2>. QED BY <2>5, <2>6
<1>. QED BY <1>1, Invariance, PTL DEF Spec, CurrentPolicy
=============================================================================
