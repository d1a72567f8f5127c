------------------------- MODULE Reconfigure_proof -------------------------
(***************************************************************************)
(* Proofs about the commands that edit the configuration and restart the   *)
(* daemon: whatever commands run at once, and wherever one of them stops,  *)
(* the file parses, its upstreams stand before its fallbacks, and the port *)
(* belongs to one daemon; for every number of commands, of processes and   *)
(* of URLs.                                                                *)
(*                                                                         *)
(* The file must be one that commands make.  In one that is edited by hand *)
(* a URL may stand in both roles, and then the last upstream can go        *)
(* (MCReconfigureLast), or there may be no server line, and then add       *)
(* --fallback writes a file that does not parse.                           *)
(***************************************************************************)
EXTENDS Reconfigure, SequenceTheorems, FiniteSetTheorems, TLAPS

\* A list of server lines as commands make it: it has an upstream, the upstreams
\* stand before the fallbacks, and no URL stands there twice.
Made(lines) ==
  /\ lines \in Seq(Line)
  /\ \E i \in DOMAIN lines : ~lines[i].fallback
  /\ \A i, j \in DOMAIN lines : i < j /\ lines[i].fallback => lines[j].fallback
  /\ \A i, j \in DOMAIN lines : lines[i].url = lines[j].url => i = j

MadeByCommands ==
  /\ \A c \in InitConfs : c # Missing => Made(c)
  /\ Made(DefaultConf)

-----------------------------------------------------------------------------
(* Places in a list. *)

\* A set of natural numbers has a least one.
LEMMA LeastIs ==
  ASSUME NEW S \in SUBSET Nat, S # {}
  PROVE  Least(S) \in S /\ \A j \in S : Least(S) <= j
<1>. DEFINE R == {ss \in Nat \X Nat : ss[1] < ss[2]}
<1>1. IsWellFoundedOn(R, Nat)
  BY NatLessThanWellFounded DEF OpToRel
<1>2. \A x, y \in Nat : <<y, x>> \in R <=> y < x
  OBVIOUS
<1>. HIDE DEF R
<1>3. PICK x \in S : \A y \in S : ~(<<y, x>> \in R)
  BY <1>1, WFMin
<1>4. ASSUME NEW y \in S PROVE x <= y
  <2>1. x \in Nat /\ y \in Nat OBVIOUS
  <2>2. ~(y < x) BY <1>2, <1>3, <2>1
  <2>. QED BY <2>1, <2>2
<1>5. \E i \in S : \A j \in S : i <= j
  BY <1>4
<1>. QED BY <1>5, Zenon DEF Least

\* And a greatest one, if it is bounded: the one with the least distance.
LEMMA GreatestIs ==
  ASSUME NEW n \in Nat, NEW S \in SUBSET (1..n), S # {}
  PROVE  Greatest(S) \in S /\ \A j \in S : Greatest(S) >= j
<1>. DEFINE D == {n - i : i \in S}
<1>1. D \in SUBSET Nat /\ D # {}
  <2>1. \A i \in S : n - i \in Nat OBVIOUS
  <2>. QED BY <2>1
<1>2. Least(D) \in D /\ \A d \in D : Least(D) <= d
  BY <1>1, LeastIs
<1>3. PICK i \in S : Least(D) = n - i
  BY <1>2
<1>4. ASSUME NEW j \in S PROVE i >= j
  <2>1. n - j \in D OBVIOUS
  <2>2. n - i <= n - j BY <2>1, <1>2, <1>3
  <2>. QED BY <2>2
<1>5. \E k \in S : \A j \in S : k >= j
  BY <1>4
<1>. QED BY <1>5, Zenon DEF Greatest

\* What stands where after a line has been put in (confedit.go:141-149).
LEMMA Inserted ==
  ASSUME NEW lines \in Seq(Line), NEW new \in Line, NEW i \in 1..(Len(lines) + 1)
  PROVE  LET r == InsertBefore(lines, i, new) IN
         /\ r \in Seq(Line)
         /\ Len(r) = Len(lines) + 1
         /\ \A k \in 1..Len(r) :
              r[k] = IF k < i THEN lines[k] ELSE IF k = i THEN new ELSE lines[k - 1]
<1>. DEFINE front == SubSeq(lines, 1, i - 1)
            rest  == SubSeq(lines, i, Len(lines))
<1>1. Len(lines) \in Nat /\ i \in Nat /\ i >= 1 /\ i <= Len(lines) + 1
  OBVIOUS
<1>2. /\ front \in Seq(Line) /\ Len(front) = i - 1
      /\ \A k \in 1..(i - 1) : front[k] = lines[k]
  BY <1>1
<1>3. /\ rest \in Seq(Line) /\ Len(rest) = Len(lines) - i + 1
      /\ \A k \in 1..(Len(lines) - i + 1) : rest[k] = lines[i + k - 1]
  BY <1>1
<1>. HIDE DEF front, rest
<1>4. InsertBefore(lines, i, new) = (front \o <<new>>) \o rest
  BY DEF InsertBefore, front, rest
<1>5. /\ front \o <<new>> \in Seq(Line) /\ Len(front \o <<new>>) = i
      /\ \A k \in 1..i : (front \o <<new>>)[k] = IF k < i THEN lines[k] ELSE new
  BY <1>1, <1>2
<1>. DEFINE head == front \o <<new>>
<1>. HIDE DEF head
<1>6. /\ head \in Seq(Line) /\ Len(head) = i
      /\ \A k \in 1..i : head[k] = IF k < i THEN lines[k] ELSE new
  BY <1>5 DEF head
<1>7. /\ head \o rest \in Seq(Line) /\ Len(head \o rest) = Len(lines) + 1
      /\ \A k \in 1..(Len(lines) + 1) :
           (head \o rest)[k] = IF k <= i THEN head[k] ELSE rest[k - i]
  BY <1>1, <1>3, <1>6
<1>. DEFINE r == head \o rest
<1>. HIDE DEF r
<1>8. ASSUME NEW k \in 1..(Len(lines) + 1)
      PROVE  r[k] = IF k < i THEN lines[k] ELSE IF k = i THEN new ELSE lines[k - 1]
  <2>0. r[k] = IF k <= i THEN head[k] ELSE rest[k - i]
    BY <1>7 DEF r
  <2>1. CASE k <= i BY <2>0, <2>1, <1>1, <1>6
  <2>2. CASE k > i
    <3>1. k - i \in 1..(Len(lines) - i + 1) /\ i + (k - i) - 1 = k - 1
      BY <2>2, <1>1
    <3>. QED BY <2>0, <2>2, <3>1, <1>1, <1>3
  <2>. QED BY <2>1, <2>2, <1>1
<1>. QED BY <1>4, <1>7, <1>8 DEF head, r

\* And after one has been taken out (confedit.go:171-185).
LEMMA Removed ==
  ASSUME NEW lines \in Seq(Line), NEW i \in 1..Len(lines)
  PROVE  LET r == SubSeq(lines, 1, i - 1) \o SubSeq(lines, i + 1, Len(lines)) IN
         /\ r \in Seq(Line)
         /\ Len(r) = Len(lines) - 1
         /\ \A k \in 1..Len(r) : r[k] = lines[IF k < i THEN k ELSE k + 1]
<1>. DEFINE front == SubSeq(lines, 1, i - 1)
            rest  == SubSeq(lines, i + 1, Len(lines))
<1>1. Len(lines) \in Nat /\ i \in Nat /\ i >= 1 /\ i <= Len(lines)
  OBVIOUS
<1>2. /\ front \in Seq(Line) /\ Len(front) = i - 1
      /\ \A k \in 1..(i - 1) : front[k] = lines[k]
  BY <1>1
<1>3. /\ rest \in Seq(Line) /\ Len(rest) = Len(lines) - i
      /\ \A k \in 1..(Len(lines) - i) : rest[k] = lines[i + k]
  BY <1>1
<1>. HIDE DEF front, rest
<1>. DEFINE r == front \o rest
<1>4. /\ r \in Seq(Line) /\ Len(r) = Len(lines) - 1
      /\ \A k \in 1..(Len(lines) - 1) :
           r[k] = IF k <= i - 1 THEN front[k] ELSE rest[k - (i - 1)]
  <2>1. /\ r \in Seq(Line) /\ Len(r) = Len(front) + Len(rest)
        /\ \A k \in 1..Len(front) + Len(rest) :
             r[k] = IF k <= Len(front) THEN front[k] ELSE rest[k - Len(front)]
    BY <1>2, <1>3, ConcatProperties, Zenon
  <2>2. Len(front) = i - 1 /\ Len(front) + Len(rest) = Len(lines) - 1
    BY <1>1, <1>2, <1>3
  <2>. QED BY <2>1, <2>2, Zenon
<1>. HIDE DEF r
<1>5. ASSUME NEW k \in 1..(Len(lines) - 1)
      PROVE  r[k] = lines[IF k < i THEN k ELSE k + 1]
  <2>0. r[k] = IF k <= i - 1 THEN front[k] ELSE rest[k - (i - 1)]
    BY <1>4
  <2>1. CASE k < i BY <2>0, <2>1, <1>1, <1>2
  <2>2. CASE k >= i
    <3>1. k - (i - 1) \in 1..(Len(lines) - i) /\ i + (k - (i - 1)) = k + 1
      BY <2>2, <1>1
    <3>. QED BY <2>0, <2>2, <3>1, <1>1, <1>3
  <2>. QED BY <2>1, <2>2, <1>1
<1>. QED BY <1>4, <1>5 DEF front, rest, r
-----------------------------------------------------------------------------
(* What an edit makes of a list that commands have made. *)

\* addServer's place is after the upstreams, and for a fallback after all lines
\* (confedit.go:115-149).
LEMMA AddKeeps ==
  ASSUME NEW lines, Made(lines), NEW new \in Line,
         \A i \in DOMAIN lines : lines[i].url # new.url
  PROVE  Made(AddServer(lines, new))
<1>1. /\ lines \in Seq(Line) /\ Len(lines) \in Nat /\ DOMAIN lines = 1..Len(lines)
      /\ \A i \in 1..Len(lines) : lines[i] \in Line
      /\ new.fallback \in BOOLEAN
  <2>1. lines \in Seq(Line) BY DEF Made
  <2>2. new.fallback \in BOOLEAN BY DEF Line
  <2>. QED BY <2>1, <2>2
<1>2. \A i \in 1..Len(lines) : lines[i].fallback \in BOOLEAN
  BY <1>1 DEF Line
<1>. DEFINE same  == {i \in DOMAIN lines : lines[i].fallback = new.fallback}
            later == {i \in DOMAIN lines : lines[i].fallback /\ ~new.fallback}
            place == IF same # {} THEN Greatest(same) + 1
                     ELSE IF later # {} THEN Least(later)
                     ELSE Len(lines) + 1
<1>3. AddServer(lines, new) = InsertBefore(lines, place, new)
  BY DEF AddServer
<1>4. /\ place \in 1..(Len(lines) + 1)
      /\ ~new.fallback => \A k \in 1..(place - 1) : ~lines[k].fallback
      /\ new.fallback => place = Len(lines) + 1
  <2>1. CASE same # {}
    <3>1. Greatest(same) \in same /\ \A j \in same : Greatest(same) >= j
      BY <2>1, <1>1, GreatestIs
    <3>. DEFINE g == Greatest(same)
    <3>2. /\ g \in 1..Len(lines) /\ lines[g].fallback = new.fallback
          /\ \A j \in 1..Len(lines) : lines[j].fallback = new.fallback => g >= j
      BY <3>1, <1>1
    <3>3. place = g + 1 BY <2>1
    <3>. HIDE DEF g, place, same, later
    <3>4. ASSUME ~new.fallback, NEW k \in 1..(place - 1) PROVE ~lines[k].fallback
      <4>1. k \in 1..Len(lines) /\ (k < g \/ k = g) BY <3>2, <3>3, <1>1
      <4>. QED BY <4>1, <3>2, <3>4, <1>1 DEF Made
    <3>5. ASSUME new.fallback PROVE g = Len(lines)
      <4>1. Len(lines) \in 1..Len(lines) /\ (g < Len(lines) \/ g = Len(lines))
        <5>1. g \in 1..Len(lines) /\ Len(lines) \in Nat BY <3>2, <1>1
        <5>. QED BY <5>1
      <4>2. lines[g].fallback BY <3>2, <3>5
      <4>3. lines[Len(lines)].fallback BY <4>1, <4>2, <3>2, <1>1 DEF Made
      <4>4. lines[Len(lines)].fallback = new.fallback BY <4>1, <4>3, <3>5, <1>1, <1>2, Zenon
      <4>. QED BY <4>1, <4>4, <3>2
    <3>. QED BY <1>1, <3>2, <3>3, <3>4, <3>5
  <2>2. CASE same = {}
    <3>1. PICK u \in 1..Len(lines) : ~lines[u].fallback
      BY <1>1 DEF Made
    <3>2. new.fallback
      <4>1. ASSUME ~new.fallback PROVE FALSE
        <5>1. lines[u].fallback = new.fallback BY <3>1, <4>1, <1>1, <1>2, Zenon
        <5>2. u \in same BY <5>1, <1>1
        <5>. QED BY <5>2, <2>2
      <4>. QED BY <4>1
    <3>3. later = {} BY <3>2
    <3>4. place = Len(lines) + 1 BY <2>2, <3>3
    <3>5. place \in 1..(Len(lines) + 1) BY <3>4, <1>1
    <3>. QED BY <3>2, <3>4, <3>5, Zenon
  <2>. QED BY <2>1, <2>2
<1>. HIDE DEF place, same, later
<1>. DEFINE r == AddServer(lines, new)
<1>5. /\ r \in Seq(Line) /\ Len(r) = Len(lines) + 1 /\ DOMAIN r = 1..(Len(lines) + 1)
      /\ \A k \in 1..(Len(lines) + 1) :
           r[k] = IF k < place THEN lines[k] ELSE IF k = place THEN new ELSE lines[k - 1]
  BY <1>1, <1>3, <1>4, Inserted
<1>. HIDE DEF r
\* Where a line was, and where it goes.
<1>. DEFINE from(k) == IF k < place THEN k ELSE k - 1
            to(k)   == IF k < place THEN k ELSE k + 1
<1>6. \A k \in 1..(Len(lines) + 1) : k # place =>
        from(k) \in 1..Len(lines) /\ r[k] = lines[from(k)]
  BY <1>1, <1>4, <1>5
<1>7. \A j, k \in 1..(Len(lines) + 1) :
        j < k /\ j # place /\ k # place => from(j) < from(k)
  BY <1>1, <1>4
<1>8. r[place] = new BY <1>4, <1>5
<1>9. \E i \in DOMAIN r : ~r[i].fallback
  <2>1. PICK u \in 1..Len(lines) : ~lines[u].fallback
    BY <1>1 DEF Made
  <2>2. to(u) \in 1..(Len(lines) + 1) /\ r[to(u)] = lines[u]
    BY <1>1, <1>4, <1>5
  <2>. QED BY <2>1, <2>2, <1>5
<1>10. ASSUME NEW i \in 1..(Len(lines) + 1), NEW j \in 1..(Len(lines) + 1), i < j, r[i].fallback
       PROVE  r[j].fallback
  <2>1. CASE i = place
    <3>. QED BY <2>1, <1>1, <1>4, <1>8, <1>10
  <2>2. CASE i # place /\ j = place
    <3>1. i \in 1..(place - 1) /\ r[i] = lines[i]
      BY <2>2, <1>4, <1>5, <1>10
    <3>. QED BY <2>2, <3>1, <1>4, <1>8, <1>10
  <2>3. CASE i # place /\ j # place
    <3>1. from(i) \in 1..Len(lines) /\ from(j) \in 1..Len(lines) /\ from(i) < from(j)
          /\ r[i] = lines[from(i)] /\ r[j] = lines[from(j)]
      BY <2>3, <1>6, <1>7, <1>10
    <3>. HIDE DEF from
    <3>. QED BY <3>1, <1>1, <1>10 DEF Made
  <2>. QED BY <2>1, <2>2, <2>3
<1>11. ASSUME NEW i \in 1..(Len(lines) + 1), NEW j \in 1..(Len(lines) + 1), i < j
       PROVE  r[i].url # r[j].url
  <2>1. CASE i # place /\ j # place
    <3>1. from(i) \in 1..Len(lines) /\ from(j) \in 1..Len(lines) /\ from(i) < from(j)
          /\ r[i] = lines[from(i)] /\ r[j] = lines[from(j)]
      BY <2>1, <1>6, <1>7, <1>11
    <3>2. from(i) # from(j) BY <3>1
    <3>. HIDE DEF from
    <3>. QED BY <3>1, <3>2, <1>1 DEF Made
  <2>2. CASE i = place
    <3>1. j # place BY <2>2, <1>11, <1>4
    <3>2. from(j) \in DOMAIN lines /\ r[j] = lines[from(j)] BY <3>1, <1>1, <1>6
    <3>. QED BY <3>2, <2>2, <1>8
  <2>3. CASE j = place
    <3>1. i # place BY <2>3, <1>11, <1>4
    <3>2. from(i) \in DOMAIN lines /\ r[i] = lines[from(i)] BY <3>1, <1>1, <1>6
    <3>. QED BY <3>2, <2>3, <1>8
  <2>. QED BY <2>1, <2>2, <2>3
<1>12. \A i, j \in 1..(Len(lines) + 1) : i < j \/ j < i \/ i = j
  BY <1>1
<1>13. \A i, j \in DOMAIN r : r[i].url = r[j].url => i = j
  BY <1>5, <1>11, <1>12
<1>14. \A i, j \in DOMAIN r : i < j /\ r[i].fallback => r[j].fallback
  BY <1>5, <1>10
<1>15. Made(r) BY <1>5, <1>9, <1>13, <1>14 DEF Made
<1>. QED BY <1>15 DEF r

\* removeServer leaves an upstream: a fallback goes, or an upstream that is not the
\* last one (confedit.go:171-185, 198-219).
LEMMA RemoveKeeps ==
  ASSUME NEW lines, Made(lines), NEW i \in DOMAIN lines, ~Refused(lines, i)
  PROVE  Made(RemoveServer(lines, i))
<1>1. /\ lines \in Seq(Line) /\ Len(lines) \in Nat /\ DOMAIN lines = 1..Len(lines)
      /\ i \in 1..Len(lines)
  BY DEF Made
<1>. DEFINE there == {j \in DOMAIN lines : lines[j].url = lines[i].url}
            r == SubSeq(lines, 1, i - 1) \o SubSeq(lines, i + 1, Len(lines))
<1>2. Least(there) = i
  <2>1. there \in SUBSET Nat /\ there # {}
    BY <1>1
  <2>2. Least(there) \in there
    BY <2>1, LeastIs
  <2>. QED BY <2>2, Zenon DEF Made
<1>3. RemoveServer(lines, i) = r
  BY <1>2 DEF RemoveServer
<1>4. /\ r \in Seq(Line) /\ Len(r) = Len(lines) - 1 /\ DOMAIN r = 1..(Len(lines) - 1)
      /\ \A k \in 1..(Len(lines) - 1) : r[k] = lines[IF k < i THEN k ELSE k + 1]
  <2>1. /\ r \in Seq(Line) /\ Len(r) = Len(lines) - 1
        /\ \A k \in 1..Len(r) : r[k] = lines[IF k < i THEN k ELSE k + 1]
    BY <1>1, Removed, Zenon
  <2>2. DOMAIN r = 1..Len(r) BY <2>1, Zenon, LenProperties
  <2>. QED BY <2>1, <2>2, Zenon
<1>. HIDE DEF r, there
<1>. DEFINE from(k) == IF k < i THEN k ELSE k + 1
            to(k)   == IF k < i THEN k ELSE k - 1
<1>5. \A k \in 1..(Len(lines) - 1) : from(k) \in 1..Len(lines) /\ r[k] = lines[from(k)]
  BY <1>1, <1>4
<1>6. \A j, k \in 1..(Len(lines) - 1) : /\ j < k => from(j) < from(k)
                                        /\ from(j) = from(k) => j = k
  BY <1>1
<1>7. PICK u \in 1..Len(lines) : ~lines[u].fallback /\ u # i
  <2>1. PICK v \in 1..Len(lines) : ~lines[v].fallback
    BY <1>1 DEF Made
  <2>2. CASE lines[i].fallback BY <2>1, <2>2
  <2>3. CASE ~lines[i].fallback
    <3>. DEFINE upstreams == {j \in DOMAIN lines : ~lines[j].fallback}
    <3>1. Cardinality(upstreams) # 1 BY <2>3 DEF Refused
    <3>2. upstreams # {i} BY <3>1, FS_Singleton
    <3>3. i \in upstreams BY <2>3
    <3>4. PICK w \in upstreams : w # i BY <3>2, <3>3
    <3>. QED BY <3>4, <1>1
  <2>. QED BY <2>2, <2>3
<1>8. \E j \in DOMAIN r : ~r[j].fallback
  <2>1. to(u) \in 1..(Len(lines) - 1) /\ r[to(u)] = lines[u]
    BY <1>1, <1>4, <1>7
  <2>. QED BY <2>1, <1>4, <1>7
<1>. HIDE DEF from
<1>9. \A j, k \in DOMAIN r : j < k /\ r[j].fallback => r[k].fallback
  BY <1>1, <1>4, <1>5, <1>6 DEF Made
<1>10. \A j, k \in DOMAIN r : r[j].url = r[k].url => j = k
  BY <1>1, <1>4, <1>5, <1>6 DEF Made
<1>. QED BY <1>3, <1>4, <1>8, <1>9, <1>10 DEF Made

\* An edit of a list of server lines is one, whatever the list is.
LEMMA EditsType ==
  ASSUME NEW lines \in Seq(Line)
  PROVE  /\ \A new \in Line : AddServer(lines, new) \in Seq(Line)
         /\ \A i \in DOMAIN lines : RemoveServer(lines, i) \in Seq(Line)
<1>1. Len(lines) \in Nat /\ DOMAIN lines = 1..Len(lines)
  OBVIOUS
<1>2. ASSUME NEW new \in Line PROVE AddServer(lines, new) \in Seq(Line)
  <2>. DEFINE same  == {i \in DOMAIN lines : lines[i].fallback = new.fallback}
              later == {i \in DOMAIN lines : lines[i].fallback /\ ~new.fallback}
              place == IF same # {} THEN Greatest(same) + 1
                       ELSE IF later # {} THEN Least(later)
                       ELSE Len(lines) + 1
  <2>1. AddServer(lines, new) = InsertBefore(lines, place, new)
    BY DEF AddServer
  <2>2. place \in 1..(Len(lines) + 1)
    <3>1. CASE same # {}
      <4>1. Greatest(same) \in 1..Len(lines) BY <3>1, <1>1, GreatestIs
      <4>2. place = Greatest(same) + 1 BY <3>1
      <4>. QED BY <4>1, <4>2, <1>1
    <3>2. CASE same = {} /\ later # {}
      <4>1. later \in SUBSET Nat /\ later \subseteq 1..Len(lines) BY <1>1
      <4>2. Least(later) \in later BY <4>1, <3>2, LeastIs
      <4>3. place = Least(later) BY <3>2
      <4>. QED BY <4>1, <4>2, <4>3, <1>1
    <3>3. CASE same = {} /\ later = {}
      <4>1. place = Len(lines) + 1 BY <3>3
      <4>. QED BY <4>1, <1>1
    <3>. QED BY <3>1, <3>2, <3>3
  <2>. HIDE DEF place
  <2>. QED BY <2>1, <2>2, Inserted
<1>3. ASSUME NEW i \in DOMAIN lines PROVE RemoveServer(lines, i) \in Seq(Line)
  <2>. DEFINE there == {j \in DOMAIN lines : lines[j].url = lines[i].url}
              r(j) == SubSeq(lines, 1, j - 1) \o SubSeq(lines, j + 1, Len(lines))
  <2>1. there \in SUBSET Nat /\ there # {} BY <1>1
  <2>2. Least(there) \in there BY <2>1, LeastIs
  <2>3. Least(there) \in 1..Len(lines) BY <2>2, <1>1
  <2>4. RemoveServer(lines, i) = r(Least(there)) BY DEF RemoveServer
  <2>5. \A j \in 1..Len(lines) : r(j) \in Seq(Line) BY Removed
  <2>. HIDE DEF r, there
  <2>. QED BY <2>3, <2>4, <2>5
<1>. QED BY <1>2, <1>3

-----------------------------------------------------------------------------
(* What the commands keep. *)

\* A set of lists that the commands do not leave.
Closed(G) ==
  /\ G \subseteq Seq(Line)
  /\ DefaultConf \in G
  /\ \A c \in InitConfs : c # Missing => c \in G
  /\ \A lines \in G : \A new \in Line :
       (\A i \in DOMAIN lines : lines[i].url # new.url) => AddServer(lines, new) \in G
  /\ \A lines \in G : \A i \in DOMAIN lines : ~Refused(lines, i) => RemoveServer(lines, i) \in G

LEMMA AllClosed == Closed(Seq(Line))
BY EditsType, ReconfigureAssumption DEF Closed

MadeLists == {lines \in Seq(Line) : Made(lines)}

LEMMA MadeClosed == MadeByCommands => Closed(MadeLists)
<1>1. \A lines : lines \in MadeLists <=> Made(lines)
  BY DEF MadeLists, Made
<1>. QED BY <1>1, AddKeeps, RemoveKeeps DEF Closed, MadeByCommands, Made

-----------------------------------------------------------------------------
(* The inductive invariant. *)

\* The file, and the copy that a command is about to write, are in G.  The copy is
\* what makes the file's part inductive: it may be written long after the file it
\* was taken from has been replaced.
FileIn(G) == conf # Missing => conf \in G
CopiesIn(G) == \A e \in Editors : editor[e].pc \in {"probe", "write"} => editor[e].lines \in G

Inv(G) == TypeOK /\ PortHeld /\ FileIn(G) /\ CopiesIn(G)

LEMMA InvIsEnough == Inv(MadeLists) => Consistent
BY DEF Inv, Consistent, ConfParses, BlocksStay, Parses, FileIn, MadeLists, Made

-----------------------------------------------------------------------------
(* The commands. *)

EditorsOK ==
  /\ editor \in [Editors -> Editor]
  /\ \A e \in Editors :
       editor[e].pc \in {"kill", "gone", "start", "up"} <=> editor[e].old # NoProc

\* What a command may become.
Fits(G, r) ==
  /\ r \in Editor
  /\ r.pc \in {"kill", "gone", "start", "up"} <=> r.old # NoProc
  /\ r.pc \in {"probe", "write"} => r.lines \in G

LEMMA EditorMoves ==
  ASSUME NEW G, EditorsOK, CopiesIn(G), NEW e \in Editors, NEW r, Fits(G, r), Becomes(e, r)
  PROVE  EditorsOK' /\ CopiesIn(G)'
<1>1. /\ editor' \in [Editors -> Editor] /\ editor'[e] = r
      /\ \A f \in Editors : f # e => editor'[f] = editor[f]
  BY DEF EditorsOK, Becomes, Fits
<1>2. ASSUME NEW f \in Editors
      PROVE  /\ editor'[f].pc \in {"kill", "gone", "start", "up"} <=> editor'[f].old # NoProc
             /\ editor'[f].pc \in {"probe", "write"} => editor'[f].lines \in G
  <2>1. CASE f = e BY <2>1, <1>1, Zenon DEF Fits
  <2>2. CASE f # e BY <2>2, <1>1, Zenon DEF EditorsOK, CopiesIn
  <2>. QED BY <2>1, <2>2
<1>. QED BY <1>1, <1>2, Zenon DEF EditorsOK, CopiesIn

LEMMA NewFits ==
  ASSUME NEW G
  PROVE  /\ NoLine \in Line
         /\ Fits(G, New) /\ New.pc = "idle"
         /\ \A pc \in {"over", "unstopped", "unstarted"} : Fits(G, [New EXCEPT !.pc = pc])
<1>1. NoLine \in Line
  <2>1. PICK u \in Urls : TRUE BY ReconfigureAssumption
  <2>2. [url |-> u, fallback |-> TRUE] \in Line BY DEF Line
  <2>. QED BY <2>2 DEF NoLine
<1>2. <<>> \in Confs BY DEF Confs
<1>. QED BY <1>1, <1>2 DEF Fits, Editor, New

\* A copy of a list that commands made fits the pcs that use one.
LEMMA CopyFits ==
  ASSUME NEW G \in SUBSET Seq(Line), NEW lines \in G, NEW line \in Line, NEW pc \in {"probe", "write"}
  PROVE  Fits(G, [New EXCEPT !.pc = pc, !.line = line, !.lines = lines])
<1>1. lines \in Confs BY DEF Confs
<1>. QED BY <1>1, NewFits DEF Fits, Editor, New

\* Every step of a command keeps the file and the copies as commands make them.
LEMMA CommandStep ==
  ASSUME NEW G, Closed(G), Inv(G), NEW e \in Editors,
         \/ \E cmd \in Command : BeginAdd(e, cmd) \/ BeginRemove(e, cmd)
         \/ Edit(e) \/ Restart(e) \/ Interrupted(e)
  PROVE  EditorsOK' /\ CopiesIn(G)' /\ FileIn(G)'
<1>1. EditorsOK /\ CopiesIn(G) /\ FileIn(G)
  BY DEF Inv, TypeOK, EditorsOK
<1>2. editor[e] \in Editor /\ conf \in Confs /\ G \in SUBSET Seq(Line)
  BY DEF Inv, TypeOK, Closed
<1>3. ASSUME NEW r, Fits(G, r), Becomes(e, r), UNCHANGED conf
      PROVE  EditorsOK' /\ CopiesIn(G)' /\ FileIn(G)'
  BY <1>1, <1>3, EditorMoves DEF FileIn
<1>4. ASSUME Ends(e), UNCHANGED conf PROVE EditorsOK' /\ CopiesIn(G)' /\ FileIn(G)'
  BY <1>3, <1>4, NewFits DEF Ends
<1>5. ASSUME NEW cmd \in Command, BeginAdd(e, cmd)
      PROVE  EditorsOK' /\ CopiesIn(G)' /\ FileIn(G)'
  <2>. DEFINE copy == IF conf = Missing THEN DefaultConf ELSE conf
              r == [New EXCEPT !.pc = "probe", !.line = cmd.line, !.lines = copy]
  <2>1. CASE Ends(e) BY <2>1, <1>4, <1>5 DEF BeginAdd
  <2>2. CASE Becomes(e, r)
    <3>1. copy \in G BY <1>1 DEF FileIn, Closed
    <3>2. cmd.line \in Line BY <1>5 DEF BeginAdd, Command
    <3>3. Fits(G, r) BY <3>1, <3>2, <1>2, CopyFits
    <3>. QED BY <3>3, <2>2, <1>3, <1>5 DEF BeginAdd
  <2>. QED BY <2>1, <2>2, <1>5 DEF BeginAdd
<1>6. ASSUME NEW cmd \in Command, BeginRemove(e, cmd)
      PROVE  EditorsOK' /\ CopiesIn(G)' /\ FileIn(G)'
  <2>1. CASE Ends(e) BY <2>1, <1>4, <1>6 DEF BeginRemove
  <2>2. CASE ~Ends(e)
    <3>1. /\ conf # Missing /\ UNCHANGED conf
          /\ \E i \in Selected(conf, cmd) : ~Refused(conf, i)
          /\ \E i \in Selected(conf, cmd) :
               Becomes(e, [New EXCEPT !.pc = "write", !.lines = RemoveServer(conf, i)])
      BY <2>2, <1>6 DEF BeginRemove
    <3>2. \A i, j \in Selected(conf, cmd) : i = j
      BY DEF Selected
    <3>3. PICK i \in Selected(conf, cmd) :
                 /\ ~Refused(conf, i)
                 /\ Becomes(e, [New EXCEPT !.pc = "write", !.lines = RemoveServer(conf, i)])
      BY <3>1, <3>2, Zenon
    <3>4. conf \in G /\ conf \in Seq(Line) BY <3>1, <1>1, <1>2 DEF FileIn
    <3>5. i \in DOMAIN conf
      <4>1. CASE cmd.by = "number" BY <4>1 DEF Selected
      <4>2. CASE cmd.by # "number"
        <5>. DEFINE same == {k \in DOMAIN conf : conf[k].url = cmd.url}
        <5>1. same # {} /\ i = Least(same) BY <4>2 DEF Selected
        <5>2. same \in SUBSET Nat BY <3>4
        <5>3. Least(same) \in same BY <5>1, <5>2, LeastIs
        <5>. QED BY <5>1, <5>3
      <4>. QED BY <4>1, <4>2
    <3>6. RemoveServer(conf, i) \in G BY <3>3, <3>4, <3>5 DEF Closed
    <3>. DEFINE r == [New EXCEPT !.pc = "write", !.lines = RemoveServer(conf, i)]
    <3>7. RemoveServer(conf, i) \in Confs BY <3>6, <1>2 DEF Confs
    <3>8. Fits(G, r) BY <3>6, <3>7, NewFits DEF Fits, Editor, New
    <3>. QED BY <3>1, <3>3, <3>8, <1>3
  <2>. QED BY <2>1, <2>2
<1>7. CASE EndProbe(e)
  <2>1. CASE Ends(e) BY <2>1, <1>4, <1>7 DEF EndProbe
  <2>2. CASE ~Ends(e)
    <3>. DEFINE s == editor[e]
                r == [s EXCEPT !.pc = "write", !.lines = AddServer(@, s.line)]
    <3>1. /\ s.pc = "probe" /\ UNCHANGED conf /\ Becomes(e, r)
          /\ \A i \in DOMAIN s.lines : s.lines[i].url # s.line.url
      BY <2>2, <1>7 DEF EndProbe, At
    <3>2. s.lines \in G BY <3>1, <1>1 DEF CopiesIn
    <3>3. s.line \in Line BY <1>2 DEF Editor
    <3>4. AddServer(s.lines, s.line) \in G BY <3>1, <3>2, <3>3 DEF Closed
    <3>5. AddServer(s.lines, s.line) \in Confs BY <3>4, <1>2 DEF Confs
    <3>6. s.old = NoProc BY <3>1, <1>1 DEF EditorsOK
    <3>7. Fits(G, r) BY <3>1, <3>4, <3>5, <3>6, <1>2 DEF Fits, Editor
    <3>. QED BY <3>1, <3>7, <1>3
  <2>. QED BY <2>1, <2>2
<1>8. CASE WriteConf(e)
  <2>. DEFINE r == [editor[e] EXCEPT !.pc = "find", !.lines = <<>>]
  <2>1. editor[e].pc = "write" /\ conf' = editor[e].lines /\ Becomes(e, r)
    BY <1>8 DEF WriteConf, At
  <2>2. editor[e].old = NoProc BY <2>1, <1>1 DEF EditorsOK
  <2>3. <<>> \in Confs BY DEF Confs
  <2>4. Fits(G, r) BY <2>2, <2>3, <1>2 DEF Fits, Editor
  <2>5. FileIn(G)' BY <2>1, <1>1 DEF FileIn, CopiesIn
  <2>. QED BY <2>1, <2>4, <2>5, <1>1, EditorMoves
<1>9. CASE ProbeFails(e) \/ WriteFails(e) \/ WaitUp(e)
  BY <1>9, <1>4 DEF ProbeFails, WriteFails, WaitUp
<1>10. CASE FindDaemon(e)
  <2>1. CASE Ends(e) BY <2>1, <1>4, <1>10 DEF FindDaemon
  <2>2. CASE ~Ends(e)
    <3>1. PICK p \in Procs : Becomes(e, [editor[e] EXCEPT !.pc = "kill", !.old = p])
      BY <2>2, <1>10 DEF FindDaemon
    <3>2. p # NoProc BY ReconfigureAssumption
    <3>3. Fits(G, [editor[e] EXCEPT !.pc = "kill", !.old = p])
      BY <3>2, <1>2 DEF Fits, Editor
    <3>. QED BY <3>1, <3>3, <1>3, <1>10 DEF FindDaemon
  <2>. QED BY <2>1, <2>2
<1>11. ASSUME NEW pc \in {"gone", "start", "up"},
              Becomes(e, [editor[e] EXCEPT !.pc = pc]), UNCHANGED conf,
              editor[e].pc \in {"kill", "gone", "start"}
       PROVE  EditorsOK' /\ CopiesIn(G)' /\ FileIn(G)'
  <2>1. editor[e].old # NoProc BY <1>11, <1>1 DEF EditorsOK
  <2>2. Fits(G, [editor[e] EXCEPT !.pc = pc]) BY <2>1, <1>2 DEF Fits, Editor
  <2>. QED BY <2>2, <1>3, <1>11
<1>12. CASE Kill(e)
  <2>1. CASE Ends(e) BY <2>1, <1>4, <1>12 DEF Kill
  <2>2. CASE ~Ends(e) BY <2>2, <1>11, <1>12 DEF Kill, At
  <2>. QED BY <2>1, <2>2
<1>13. CASE SeeGone(e) BY <1>11, <1>13 DEF SeeGone, At
<1>14. CASE StartDaemon(e) BY <1>11, <1>14 DEF StartDaemon, At
<1>15. CASE Interrupted(e) BY <1>3, <1>15, NewFits DEF Interrupted, Ends
<1>. QED BY <1>5, <1>6, <1>7, <1>8, <1>9, <1>10, <1>12, <1>13, <1>14, <1>15 DEF Edit, Restart
-----------------------------------------------------------------------------
(* The processes and their sockets. *)

ProcStates == {"none", "loading", "udp", "tcp", "waiting", "serving", "stopping"}

\* The part of the invariant that is not about files.
DaemonsOK ==
  /\ proc \in [Procs -> ProcStates]
  /\ loaded \in [Procs -> Confs]
  /\ told \subseteq Procs
  /\ udp \in Procs \cup {NoProc} /\ tcp \in Procs \cup {NoProc}
  /\ address \in BOOLEAN /\ outages \in 0..MaxOutages
  /\ PortHeld

LEMMA InvParts ==
  ASSUME NEW G
  PROVE
  /\ Inv(G) <=> DaemonsOK /\ EditorsOK /\ conf \in Confs /\ FileIn(G) /\ CopiesIn(G)
  /\ Inv(G)' <=> DaemonsOK' /\ EditorsOK' /\ (conf \in Confs)' /\ FileIn(G)' /\ CopiesIn(G)'
BY DEF Inv, TypeOK, DaemonsOK, EditorsOK, ProcStates

\* One process changes its state, and opens or closes a socket or not.
LEMMA TurnsStep ==
  ASSUME DaemonsOK, NEW p \in Procs, NEW state \in ProcStates, Turns(p, state),
         loaded' \in [Procs -> Confs], told' \subseteq Procs,
         address' \in BOOLEAN, outages' \in 0..MaxOutages,
         udp' = udp \/ (udp' = NoProc /\ udp = p) \/ (udp' = p /\ udp = NoProc),
         tcp' = tcp \/ (tcp' = NoProc /\ tcp = p) \/ (tcp' = p /\ tcp = NoProc),
         udp' = p <=> state \in {"tcp", "serving"},
         tcp' = p <=> state \in {"serving", "stopping"}
  PROVE  DaemonsOK'
<1>1. /\ proc' \in [Procs -> ProcStates] /\ proc'[p] = state
      /\ \A q \in Procs : q # p => proc'[q] = proc[q]
  BY DEF Turns, DaemonsOK
<1>2. p # NoProc BY ReconfigureAssumption
<1>3. ASSUME NEW q \in Procs
      PROVE  /\ udp' = q <=> proc'[q] \in {"tcp", "serving"}
             /\ tcp' = q <=> proc'[q] \in {"serving", "stopping"}
  <2>1. CASE q = p BY <2>1, <1>1
  <2>2. CASE q # p
    <3>1. q # NoProc BY ReconfigureAssumption
    <3>2. (udp' = q <=> udp = q) /\ (tcp' = q <=> tcp = q) BY <2>2, <3>1
    <3>. QED BY <2>2, <3>2, <1>1 DEF DaemonsOK, PortHeld
  <2>. QED BY <2>1, <2>2
<1>4. udp' \in Procs \cup {NoProc} /\ tcp' \in Procs \cup {NoProc}
  BY DEF DaemonsOK
<1>. QED BY <1>1, <1>3, <1>4 DEF DaemonsOK, PortHeld

LEMMA DaemonsStep ==
  ASSUME NEW G, Inv(G), Next
  PROVE  DaemonsOK'
<1>1. DaemonsOK /\ conf \in Confs BY InvParts
<1>2. \A p \in Procs : /\ udp = p <=> proc[p] \in {"tcp", "serving"}
                       /\ tcp = p <=> proc[p] \in {"serving", "stopping"}
                       /\ p # NoProc
  BY <1>1, ReconfigureAssumption DEF DaemonsOK, PortHeld
<1>3. ASSUME UNCHANGED <<proc, loaded, told, port, link>> PROVE DaemonsOK'
  BY <1>1, <1>3 DEF DaemonsOK, PortHeld, port, link
<1>4. ASSUME NEW p \in Procs, Daemon(p) PROVE DaemonsOK'
  <2>1. /\ loaded \in [Procs -> Confs] /\ told \subseteq Procs
        /\ address \in BOOLEAN /\ outages \in 0..MaxOutages
        /\ told \ {p} \subseteq Procs
    BY <1>1 DEF DaemonsOK
  <2>. USE DEF port, link, Exits
  <2>. DEFINE Rest == UNCHANGED <<loaded, address, outages>>
  <2>0. \A state \in {"none", "udp", "tcp", "waiting", "serving", "stopping"} :
          state \in ProcStates
    BY DEF ProcStates
  <2>2. CASE LoadConf(p)
    <3>1. loaded' \in [Procs -> Confs] /\ UNCHANGED <<told, udp, tcp, address, outages>>
      BY <2>1, <2>2, <1>1 DEF LoadConf
    <3>2. PICK state \in {"udp", "none"} : Turns(p, state)
      BY <2>2 DEF LoadConf
    <3>3. udp # p /\ tcp # p BY <2>2, <1>2 DEF LoadConf
    <3>. QED BY <3>1, <3>2, <3>3, <2>0, <2>1, <1>1, TurnsStep
  <2>3. CASE BindUdp(p)
    <3>1. Rest /\ UNCHANGED tcp /\ udp # p /\ tcp # p BY <2>3, <1>2 DEF BindUdp
    <3>2. \/ Turns(p, "waiting") /\ UNCHANGED <<udp, told>>
          \/ Turns(p, "none") /\ told' = told \ {p} /\ UNCHANGED udp
          \/ udp = NoProc /\ udp' = p /\ Turns(p, "tcp") /\ UNCHANGED told
      BY <2>3 DEF BindUdp
    <3>3. CASE Turns(p, "tcp") /\ UNCHANGED told /\ udp = NoProc /\ udp' = p
      BY <3>1, <3>3, <2>0, <2>1, <1>1, TurnsStep
    <3>4. CASE Turns(p, "waiting") /\ UNCHANGED <<udp, told>>
      BY <3>1, <3>4, <2>0, <2>1, <1>1, TurnsStep
    <3>5. CASE Turns(p, "none") /\ told' = told \ {p} /\ UNCHANGED udp
      BY <3>1, <3>5, <2>0, <2>1, <1>1, TurnsStep
    <3>. QED BY <3>2, <3>3, <3>4, <3>5
  <2>4. CASE BindTcp(p)
    <3>1. Rest /\ udp = p /\ tcp # p /\ p # NoProc BY <2>4, <1>2 DEF BindTcp
    <3>2. \/ tcp = NoProc /\ tcp' = p /\ Turns(p, "serving") /\ UNCHANGED <<udp, told>>
          \/ /\ udp' = NoProc /\ UNCHANGED tcp
             /\ \/ Turns(p, "none") /\ told' = told \ {p}
                \/ Turns(p, "waiting") /\ UNCHANGED told
      BY <2>4 DEF BindTcp
    <3>3. CASE tcp = NoProc /\ tcp' = p /\ Turns(p, "serving") /\ UNCHANGED <<udp, told>>
      BY <3>1, <3>3, <2>0, <2>1, <1>1, TurnsStep
    <3>4. CASE udp' = NoProc /\ UNCHANGED tcp /\ Turns(p, "none") /\ told' = told \ {p}
      BY <3>1, <3>4, <2>0, <2>1, <1>1, TurnsStep
    <3>5. CASE udp' = NoProc /\ UNCHANGED tcp /\ Turns(p, "waiting") /\ UNCHANGED told
      BY <3>1, <3>5, <2>0, <2>1, <1>1, TurnsStep
    <3>. QED BY <3>2, <3>3, <3>4, <3>5
  <2>5. CASE Retry(p)
    <3>1. Rest /\ Turns(p, "udp") /\ UNCHANGED <<told, udp, tcp>> /\ udp # p /\ tcp # p
      BY <2>5, <1>2 DEF Retry
    <3>. QED BY <3>1, <2>0, <2>1, <1>1, TurnsStep
  <2>6. CASE GiveUpWaiting(p)
    <3>1. /\ Rest /\ Turns(p, "none") /\ told' = told \ {p}
          /\ UNCHANGED <<udp, tcp>> /\ udp # p /\ tcp # p
      BY <2>6, <1>2 DEF GiveUpWaiting
    <3>. QED BY <3>1, <2>0, <2>1, <1>1, TurnsStep
  <2>7. CASE Shutdown(p)
    <3>1. /\ Rest /\ Turns(p, "stopping") /\ UNCHANGED <<told, tcp>> /\ udp' = NoProc
          /\ udp = p /\ tcp = p /\ p # NoProc
      BY <2>7, <1>2 DEF Shutdown
    <3>. QED BY <3>1, <2>0, <2>1, <1>1, TurnsStep
  <2>8. CASE Stop(p)
    <3>1. /\ Rest /\ Turns(p, "none") /\ told' = told \ {p} /\ UNCHANGED udp /\ tcp' = NoProc
          /\ udp # p /\ tcp = p /\ p # NoProc
      BY <2>8, <1>2 DEF Stop
    <3>. QED BY <3>1, <2>0, <2>1, <1>1, TurnsStep
  <2>. QED BY <1>4, <2>2, <2>3, <2>4, <2>5, <2>6, <2>7, <2>8 DEF Daemon
<1>5. CASE AddressGoes
  <2>1. outages' \in 0..MaxOutages
    BY <1>1, <1>5, ReconfigureAssumption DEF AddressGoes, DaemonsOK
  <2>. QED BY <2>1, <1>1, <1>5 DEF AddressGoes, DaemonsOK, PortHeld, port
<1>6. CASE AddressComes
  BY <1>1, <1>6 DEF AddressComes, DaemonsOK, PortHeld, port
<1>7. ASSUME NEW e \in Editors, NEW cmd \in Command, BeginAdd(e, cmd) \/ BeginRemove(e, cmd)
      PROVE  DaemonsOK'
  BY <1>3, <1>7 DEF BeginAdd, BeginRemove
<1>8. ASSUME NEW e \in Editors, Edit(e) \/ Interrupted(e) PROVE DaemonsOK'
  BY <1>3, <1>8 DEF Edit, EndProbe, ProbeFails, WriteConf, WriteFails, Interrupted
<1>9. ASSUME NEW e \in Editors, Restart(e) PROVE DaemonsOK'
  <2>1. CASE FindDaemon(e) \/ SeeGone(e) \/ WaitUp(e)
    BY <2>1, <1>3 DEF FindDaemon, SeeGone, WaitUp
  <2>2. CASE Kill(e)
    <3>. DEFINE p == editor[e].old
    <3>1. p \in Procs
      <4>1. editor[e].pc = "kill" /\ EditorsOK BY <2>2, InvParts DEF Kill, At
      <4>. QED BY <4>1 DEF EditorsOK, Editor
    <3>2. CASE proc[p] = "loading"
      <4>1. /\ Turns(p, "none") /\ UNCHANGED <<loaded, told, udp, tcp, address, outages>>
            /\ udp # p /\ tcp # p /\ "none" \in ProcStates
        BY <3>1, <3>2, <2>2, <1>2 DEF Kill, Turns, ProcStates, port, link
      <4>2. /\ loaded \in [Procs -> Confs] /\ told \subseteq Procs
            /\ address \in BOOLEAN /\ outages \in 0..MaxOutages
        BY <1>1 DEF DaemonsOK
      <4>. QED BY <4>1, <4>2, <3>1, <1>1, TurnsStep
    <3>3. CASE proc[p] # "loading"
      BY <3>1, <3>3, <2>2, <1>1 DEF Kill, DaemonsOK, PortHeld, port, link
    <3>. QED BY <3>2, <3>3
  <2>3. CASE StartDaemon(e)
    <3>1. PICK p \in FreeProcs : Turns(p, "loading")
      BY <2>3 DEF StartDaemon, Turns
    <3>2. p \in Procs /\ proc[p] = "none"
      BY <3>1 DEF FreeProcs, Alive
    <3>3. /\ UNCHANGED <<loaded, told, udp, tcp, address, outages>>
          /\ udp # p /\ tcp # p /\ "loading" \in ProcStates
      BY <3>2, <2>3, <1>2 DEF StartDaemon, ProcStates, port, link
    <3>4. /\ loaded \in [Procs -> Confs] /\ told \subseteq Procs
          /\ address \in BOOLEAN /\ outages \in 0..MaxOutages
      BY <1>1 DEF DaemonsOK
    <3>. QED BY <3>1, <3>2, <3>3, <3>4, <1>1, TurnsStep
  <2>. QED BY <1>9, <2>1, <2>2, <2>3 DEF Restart
<1>. QED BY <1>4, <1>5, <1>6, <1>7, <1>8, <1>9 DEF Next

LEMMA InvStep ==
  ASSUME NEW G, Closed(G), Inv(G), [Next]_vars
  PROVE  Inv(G)'
<1>1. CASE UNCHANGED vars
  BY <1>1 DEF Inv, TypeOK, PortHeld, FileIn, CopiesIn, vars, port, link
<1>2. CASE Next
  <2>1. DaemonsOK' BY <1>2, DaemonsStep
  <2>2. EditorsOK /\ FileIn(G) /\ CopiesIn(G) /\ conf \in Confs
    BY InvParts
  <2>3. EditorsOK' /\ CopiesIn(G)' /\ FileIn(G)'
    <3>1. ASSUME UNCHANGED <<conf, editor>> PROVE EditorsOK' /\ CopiesIn(G)' /\ FileIn(G)'
      BY <2>2, <3>1 DEF EditorsOK, CopiesIn, FileIn
    <3>2. ASSUME NEW p \in Procs, Daemon(p) PROVE UNCHANGED <<conf, editor>>
      BY <3>2 DEF Daemon, LoadConf, BindUdp, BindTcp, Retry, GiveUpWaiting, Shutdown, Stop
    <3>3. CASE AddressGoes \/ AddressComes
      BY <3>1, <3>3 DEF AddressGoes, AddressComes
    <3>4. ASSUME NEW e \in Editors,
                 \/ \E cmd \in Command : BeginAdd(e, cmd) \/ BeginRemove(e, cmd)
                 \/ Edit(e) \/ Restart(e) \/ Interrupted(e)
          PROVE  EditorsOK' /\ CopiesIn(G)' /\ FileIn(G)'
      BY <3>4, CommandStep, Zenon
    <3>. QED BY <1>2, <3>1, <3>2, <3>3, <3>4 DEF Next
  <2>4. (conf \in Confs)' BY <2>3 DEF FileIn, Closed, Confs
  <2>. QED BY <2>1, <2>3, <2>4, InvParts
<1>. QED BY <1>1, <1>2

LEMMA InvInit ==
  ASSUME NEW G, Closed(G), Init
  PROVE  Inv(G)
<1>1. AnyProc \in Procs BY ReconfigureAssumption DEF AnyProc
<1>2. PICK up \in {AnyProc, NoProc} :
        /\ proc = [p \in Procs |-> IF p = up THEN "serving" ELSE "none"]
        /\ loaded = [p \in Procs |-> IF p = up THEN conf ELSE <<>>]
        /\ udp = up /\ tcp = up
  BY DEF Init
<1>3. conf \in Confs /\ <<>> \in Confs /\ FileIn(G)
  BY ReconfigureAssumption DEF Init, Closed, FileIn, Confs
<1>4. DaemonsOK
  BY <1>1, <1>2, <1>3, ReconfigureAssumption DEF Init, DaemonsOK, ProcStates, PortHeld
<1>5. EditorsOK /\ CopiesIn(G)
  <2>1. editor = [e \in Editors |-> New] BY DEF Init
  <2>. QED BY <2>1, NewFits DEF EditorsOK, CopiesIn, Fits
<1>. QED BY <1>3, <1>4, <1>5, InvParts

\* Lists that commands make stay such lists, and lists are lists.
LEMMA MadeAlways ==
  ASSUME MadeByCommands
  PROVE  Spec => []Inv(MadeLists)
<1>1. Closed(MadeLists) BY MadeClosed
<1>2. Init => Inv(MadeLists) BY <1>1, InvInit
<1>3. Inv(MadeLists) /\ [Next]_vars => Inv(MadeLists)' BY <1>1, InvStep
<1>. QED BY <1>2, <1>3, PTL DEF Spec

LEMMA ListsAlways == Spec => []Inv(Seq(Line))
<1>1. Init => Inv(Seq(Line)) BY AllClosed, InvInit
<1>2. Inv(Seq(Line)) /\ [Next]_vars => Inv(Seq(Line))' BY AllClosed, InvStep
<1>. QED BY <1>1, <1>2, PTL DEF Spec

-----------------------------------------------------------------------------
(* What follows from it. *)

\* Whatever number of commands edit the file and restart the daemon at once, and
\* wherever they stop: the file can be served from, its upstreams stand before
\* its fallbacks, and the port belongs to one daemon (confedit.go:115-219,
\* server.go:73-130).
THEOREM FileStaysServable == MadeByCommands => (Spec => []Consistent)
<1>. SUFFICES ASSUME MadeByCommands PROVE Spec => []Consistent
  OBVIOUS
<1>1. Spec => []Inv(MadeLists) BY MadeAlways
<1>. QED BY <1>1, InvIsEnough, PTL

\* Whatever the file holds at first, the types are kept, and the port belongs to
\* one daemon: two that are started at once do not both serve, and none leaves a
\* socket behind (server.go:73-130).
THEOREM PortIsHeld == Spec => [](TypeOK /\ PortHeld)
<1>1. Inv(Seq(Line)) => TypeOK /\ PortHeld BY DEF Inv
<1>. QED BY <1>1, ListsAlways, PTL

\* A command that removes a server leaves an upstream, though the last one is
\* counted in the file as it was when the command read it (confedit.go:171-185).
THEOREM UpstreamStays == MadeByCommands => (Spec => LastUpstreamStays)
<1>. SUFFICES ASSUME MadeByCommands PROVE Spec => LastUpstreamStays
  OBVIOUS
<1>. DEFINE Kept == \A e \in Editors : At(e, "idle") /\ editor'[e].pc = "write" =>
                      Parses(editor'[e].lines)
<1>1. Closed(MadeLists) BY MadeClosed
<1>2. Inv(MadeLists) /\ [Next]_vars => [Kept]_vars
  <2>. SUFFICES ASSUME Inv(MadeLists), [Next]_vars, NEW e \in Editors, editor'[e].pc = "write"
                PROVE  Parses(editor'[e].lines)
    OBVIOUS
  <2>1. CopiesIn(MadeLists)' BY <1>1, InvStep DEF Inv
  <2>2. editor'[e].lines \in MadeLists BY <2>1 DEF CopiesIn
  <2>. QED BY <2>2 DEF MadeLists, Made, Parses
<1>3. Spec => []Inv(MadeLists) BY MadeAlways
<1>. QED BY <1>2, <1>3, PTL DEF Spec, LastUpstreamStays
-----------------------------------------------------------------------------
(* Two commands and the configuration that is served. *)

\* At most two commands.
TwoCommands == \A d, e, f \in Editors : d = e \/ d = f \/ e = f

\* A command that does not start a daemon any more.
Past == {"up", "over", "unstopped", "unstarted"}
Over(e) == editor[e].pc \in Past

\* Two daemons run only when each of the two commands has started one.
OneUntilPast ==
  \A e \in Editors : ~Over(e) => \A p, q \in Procs : Alive(p) /\ Alive(q) => p = q

\* Command r knows the daemon that it replaces.
Replaces(r) == r.pc \in {"kill", "gone", "start"}
Others(r, p) == p # r.old \/ r.pc = "start"

\* A daemon that is not the one a command stops has been started by the other
\* command, which starts no more.
OtherIsPast ==
  \A e \in Editors : Replaces(editor[e]) =>
    \A p \in Procs : Alive(p) /\ Others(editor[e], p) =>
      \A f \in Editors : f # e => Over(f)

\* Command r will stop process p, or it has been interrupted before it did.
WillStop(r, p) ==
  \/ r.pc \in {"find", "unstopped"}
  \/ r.pc \in {"kill", "gone"} /\ r.old = p

\* A daemon that has read a file that has been replaced since.
Stale(p) == Alive(p) /\ proc[p] # "loading" /\ loaded[p] # conf

StaleIsStopped ==
  \A p \in Procs : Stale(p) => p \in told \/ \E e \in Editors : WillStop(editor[e], p)

\* A command waits for a daemon that has been told to stop, or is gone already.
GoneIsTold ==
  \A e \in Editors : editor[e].pc = "gone" /\ Alive(editor[e].old) => editor[e].old \in told

\* The order that two commands keep: each writes before it looks for a daemon, so
\* the one that writes last stops what has read the earlier file.
Ordered == OneUntilPast /\ OtherIsPast /\ StaleIsStopped /\ GoneIsTold

LEMMA OrderedInit == Init => Ordered
<1>. SUFFICES ASSUME Init PROVE Ordered
  OBVIOUS
<1>1. PICK up \in {AnyProc, NoProc} :
        /\ proc = [p \in Procs |-> IF p = up THEN "serving" ELSE "none"]
        /\ loaded = [p \in Procs |-> IF p = up THEN conf ELSE <<>>]
  BY DEF Init
<1>2. \A p \in Procs : Alive(p) => p = up /\ loaded[p] = conf
  BY <1>1 DEF Alive
<1>3. \A e \in Editors : editor[e].pc = "idle"
  BY DEF Init, New
<1>. QED BY <1>2, <1>3 DEF Ordered, OneUntilPast, OtherIsPast, StaleIsStopped, GoneIsTold,
                           Stale, Replaces

\* A command goes on, and daemons may end.
LEMMA OrderedMoves ==
  ASSUME EditorsOK, Ordered, NEW e \in Editors, NEW r, Becomes(e, r),
         UNCHANGED <<conf, loaded>>,
         \A p \in Procs : proc'[p] \in {proc[p], "none"},
         told \subseteq told',
         Over(e) => r.pc \in Past,
         Replaces(r) => \A p \in Procs : Alive(p)' /\ Others(r, p) =>
                          \A f \in Editors : f # e => Over(f),
         \A p \in Procs : Alive(p)' /\ Stale(p) /\ WillStop(editor[e], p) =>
                            WillStop(r, p) \/ p \in told',
         r.pc = "gone" => proc'[r.old] = "none" \/ r.old \in told'
  PROVE  Ordered'
<1>1. editor'[e] = r /\ \A f \in Editors : f # e => editor'[f] = editor[f]
  BY DEF EditorsOK, Becomes
<1>2. \A p \in Procs : Alive(p)' => Alive(p) /\ proc'[p] = proc[p]
  BY DEF Alive
<1>3. \A f \in Editors : Over(f) => Over(f)'
  BY <1>1, Zenon DEF Over
<1>4. OneUntilPast'
  BY <1>2, <1>3, Zenon DEF Ordered, OneUntilPast
<1>5. ASSUME NEW g \in Editors, Replaces(editor'[g]), NEW p \in Procs, Alive(p)',
             Others(editor'[g], p), NEW f \in Editors, f # g
      PROVE  Over(f)'
  <2>1. CASE g = e BY <2>1, <1>1, <1>3, <1>5, Zenon
  <2>2. CASE g # e
    <3>1. editor'[g] = editor[g] BY <2>2, <1>1
    <3>. QED BY <3>1, <1>2, <1>3, <1>5, Zenon DEF Ordered, OtherIsPast
  <2>. QED BY <2>1, <2>2
<1>6. ASSUME NEW p \in Procs, Stale(p)', p \notin told'
      PROVE  \E f \in Editors : WillStop(editor'[f], p)
  <2>1. Alive(p)' /\ Stale(p) /\ p \notin told BY <1>2, <1>6 DEF Stale
  <2>2. PICK f \in Editors : WillStop(editor[f], p) BY <2>1 DEF Ordered, StaleIsStopped
  <2>3. CASE f = e BY <2>1, <2>2, <2>3, <1>1, <1>6
  <2>4. CASE f # e BY <2>2, <2>4, <1>1, Zenon
  <2>. QED BY <2>3, <2>4
<1>7. OtherIsPast' BY <1>5, Zenon DEF OtherIsPast
<1>8. StaleIsStopped' BY <1>6, Zenon DEF StaleIsStopped
<1>9. ASSUME NEW f \in Editors, editor'[f].pc = "gone", proc'[editor'[f].old] # "none"
      PROVE  editor'[f].old \in told'
  <2>1. CASE f = e BY <2>1, <1>1, <1>9
  <2>2. CASE f # e
    <3>1. editor'[f] = editor[f] /\ editor[f].pc = "gone" BY <2>2, <1>1, <1>9
    <3>2. editor[f].old \in Procs BY <3>1 DEF EditorsOK, Editor
    <3>3. Alive(editor[f].old) BY <3>1, <3>2, <1>9 DEF Alive
    <3>. QED BY <3>1, <3>3 DEF Ordered, GoneIsTold
  <2>. QED BY <2>1, <2>2
<1>10. GoneIsTold' BY <1>9, Zenon DEF GoneIsTold, Alive
<1>. QED BY <1>4, <1>7, <1>8, <1>10, Zenon DEF Ordered

\* A daemon reads the file, or it goes on, or it ends.
LEMMA OrderedDaemon ==
  ASSUME EditorsOK, Ordered, UNCHANGED <<conf, editor>>,
         \A p \in Procs : Alive(p)' => Alive(p) /\ (p \in told => p \in told'),
         \A p \in Procs : Stale(p)' => Stale(p)
  PROVE  Ordered'
<1>1. \A e \in Editors : editor'[e] = editor[e] /\ (Over(e)' <=> Over(e))
  BY Zenon DEF Over
<1>2. OneUntilPast' BY <1>1, Zenon DEF Ordered, OneUntilPast
<1>3. OtherIsPast' BY <1>1, Zenon DEF Ordered, OtherIsPast
<1>4. StaleIsStopped'
  <2>. SUFFICES ASSUME NEW p \in Procs, Stale(p)', p \notin told'
                PROVE  \E e \in Editors : WillStop(editor'[e], p)
    BY Zenon DEF StaleIsStopped
  <2>1. Stale(p) /\ Alive(p)' BY DEF Stale
  <2>2. p \notin told BY <2>1
  <2>. QED BY <2>1, <2>2, <1>1, Zenon DEF Ordered, StaleIsStopped
<1>5. GoneIsTold'
  <2>. SUFFICES ASSUME NEW e \in Editors, editor[e].pc = "gone", proc'[editor[e].old] # "none"
                PROVE  editor[e].old \in told'
    BY <1>1, Zenon DEF GoneIsTold, Alive
  <2>1. editor[e].old \in Procs BY DEF EditorsOK, Editor
  <2>2. Alive(editor[e].old)' BY DEF Alive
  <2>3. Alive(editor[e].old) BY <2>1, <2>2
  <2>. QED BY <2>1, <2>2, <2>3 DEF Ordered, GoneIsTold
<1>. QED BY <1>2, <1>3, <1>4, <1>5, Zenon DEF Ordered

LEMMA OrderedCommand ==
  ASSUME TwoCommands, Inv(Seq(Line)), Ordered, NEW e \in Editors,
         \/ \E cmd \in Command : BeginAdd(e, cmd) \/ BeginRemove(e, cmd)
         \/ Edit(e) \/ Restart(e) \/ Interrupted(e)
  PROVE  Ordered'
<1>1. EditorsOK /\ proc \in [Procs -> ProcStates]
  BY InvParts DEF DaemonsOK
<1>2. editor[e] \in Editor
  BY <1>1 DEF EditorsOK
<1>. DEFINE Still == UNCHANGED <<conf, proc, loaded, told>>
\* A command that has not written yet goes on or ends, or it ends at last.
<1>3. ASSUME NEW r, Becomes(e, r), Still, editor[e].pc \in {"idle", "probe", "write"},
             r.pc \in {"probe", "write", "over"}
      PROVE  Ordered'
  <2>1. ~Over(e) /\ ~Replaces(r) /\ \A p \in Procs : ~WillStop(editor[e], p)
    BY <1>3 DEF Over, Past, Replaces, WillStop
  <2>. QED BY <2>1, <1>1, <1>3, OrderedMoves
<1>4. New.pc = "idle" /\ [New EXCEPT !.pc = "over"].pc = "over"
      /\ [New EXCEPT !.pc = "unstopped"].pc = "unstopped"
      /\ [New EXCEPT !.pc = "unstarted"].pc = "unstarted"
  BY DEF New
<1>5. ASSUME NEW cmd \in Command, BeginAdd(e, cmd) PROVE Ordered'
  <2>1. /\ Still /\ editor[e].pc = "idle"
        /\ \/ Ends(e)
           \/ \E lines : Becomes(e, [New EXCEPT !.pc = "probe", !.line = cmd.line, !.lines = lines])
    BY <1>5 DEF BeginAdd, At
  <2>2. \A lines : [New EXCEPT !.pc = "probe", !.line = cmd.line, !.lines = lines].pc = "probe"
    BY DEF New
  <2>. QED BY <2>1, <2>2, <1>3, <1>4 DEF Ends
<1>6. ASSUME NEW cmd \in Command, BeginRemove(e, cmd) PROVE Ordered'
  <2>1. /\ Still /\ editor[e].pc = "idle"
        /\ \/ Ends(e)
           \/ \E lines : Becomes(e, [New EXCEPT !.pc = "write", !.lines = lines])
    BY <1>6 DEF BeginRemove, At
  <2>2. \A lines : [New EXCEPT !.pc = "write", !.lines = lines].pc = "write"
    BY DEF New
  <2>. QED BY <2>1, <2>2, <1>3, <1>4 DEF Ends
<1>7. CASE EndProbe(e)
  <2>1. /\ Still /\ editor[e].pc = "probe"
        /\ \/ Ends(e)
           \/ \E lines : Becomes(e, [editor[e] EXCEPT !.pc = "write", !.lines = lines])
    BY <1>7 DEF EndProbe, At
  <2>2. \A lines : [editor[e] EXCEPT !.pc = "write", !.lines = lines].pc = "write"
    BY <1>2 DEF Editor
  <2>. QED BY <2>1, <2>2, <1>3, <1>4 DEF Ends
<1>8. CASE ProbeFails(e) \/ WriteFails(e)
  BY <1>8, <1>3, <1>4 DEF ProbeFails, WriteFails, At, Ends
<1>9. CASE WriteConf(e)
  <2>. DEFINE r == [editor[e] EXCEPT !.pc = "find", !.lines = <<>>]
  <2>1. editor[e].pc = "write" /\ Becomes(e, r) /\ UNCHANGED <<proc, loaded, told>>
    BY <1>9 DEF WriteConf, At
  <2>2. r.pc = "find" BY <1>2 DEF Editor
  <2>3. /\ editor'[e].pc = "find" /\ \A f \in Editors : f # e => editor'[f] = editor[f]
    BY <2>1, <2>2, <1>1 DEF Becomes, EditorsOK
  <2>4. ~Over(e) /\ ~Over(e)' BY <2>1, <2>3 DEF Over, Past
  <2>5. \A f \in Editors : Over(f)' <=> Over(f)
    BY <2>3, <2>4, Zenon DEF Over
  <2>6. OneUntilPast' BY <2>1, <2>5 DEF Ordered, OneUntilPast, Alive
  <2>7. OtherIsPast'
    <3>1. \A f \in Editors : Replaces(editor'[f]) => editor'[f] = editor[f]
      BY <2>3 DEF Replaces
    <3>2. \A p \in Procs : Alive(p)' <=> Alive(p) BY <2>1 DEF Alive
    <3>. QED BY <3>1, <3>2, <2>5, Zenon DEF Ordered, OtherIsPast
  <2>8. StaleIsStopped' BY <2>3 DEF StaleIsStopped, WillStop
  <2>9. GoneIsTold'
    <3>1. \A f \in Editors : editor'[f].pc = "gone" => editor'[f] = editor[f]
      BY <2>3
    <3>. QED BY <3>1, <2>1 DEF Ordered, GoneIsTold, Alive
  <2>. QED BY <2>6, <2>7, <2>8, <2>9 DEF Ordered
<1>10. CASE FindDaemon(e)
  <2>1. Still /\ editor[e].pc = "find" /\ ~Over(e)
    BY <1>10 DEF FindDaemon, At, Over, Past
  <2>2. CASE \A p \in Procs : ~Alive(p)
    <3>1. Ends(e) BY <2>2, <1>10 DEF FindDaemon
    <3>. QED BY <3>1, <2>1, <2>2, <1>1, <1>4, OrderedMoves DEF Ends, Past, Alive, Replaces
  <2>3. CASE \E p \in Procs : Alive(p)
    <3>1. PICK p \in Procs : Alive(p) /\ Becomes(e, [editor[e] EXCEPT !.pc = "kill", !.old = p])
      BY <2>3, <1>10 DEF FindDaemon
    <3>. DEFINE r == [editor[e] EXCEPT !.pc = "kill", !.old = p]
    <3>2. r.pc = "kill" /\ r.old = p BY <1>2 DEF Editor
    <3>. HIDE DEF r
    <3>3. \A q \in Procs : Alive(q)' => Alive(q) /\ q = p
      BY <3>1, <2>1 DEF Ordered, OneUntilPast, Alive
    <3>4. \A q \in Procs : Alive(q)' => ~Others(r, q) /\ WillStop(r, q)
      BY <3>2, <3>3 DEF Others, WillStop
    <3>. QED BY <3>1, <3>2, <3>4, <2>1, <1>1, OrderedMoves DEF r, Past, Replaces
  <2>. QED BY <2>2, <2>3
<1>11. CASE Kill(e)
  <2>. DEFINE p == editor[e].old
  <2>1. editor[e].pc = "kill" /\ ~Over(e) /\ UNCHANGED <<conf, loaded>>
    BY <1>11 DEF Kill, At, Over, Past
  <2>2. p \in Procs BY <2>1, <1>1 DEF EditorsOK, Editor
  <2>3. /\ \A q \in Procs : proc'[q] \in {proc[q], "none"}
        /\ told \subseteq told'
        /\ Alive(p) /\ p \notin told' => proc'[p] = "none"
    BY <2>2, <1>1, <1>11 DEF Kill
  <2>4. CASE ~Alive(p)
    <3>1. Ends(e) /\ UNCHANGED proc BY <2>4, <1>11 DEF Kill, Alive
    <3>2. \A q \in Procs : Stale(q) => ~WillStop(editor[e], q)
      BY <2>1, <2>4 DEF WillStop, Stale
    <3>. QED BY <3>1, <3>2, <2>1, <2>3, <1>1, <1>4, OrderedMoves DEF Ends, Past, Replaces
  <2>5. CASE Alive(p)
    <3>. DEFINE r == [editor[e] EXCEPT !.pc = "gone"]
    <3>1. Becomes(e, r) BY <2>5, <1>11 DEF Kill
    <3>2. r.pc = "gone" /\ r.old = p BY <1>2 DEF Editor
    <3>. HIDE DEF r
    <3>3. /\ \A q \in Procs : WillStop(editor[e], q) => WillStop(r, q)
          /\ r.old \notin told' => proc'[r.old] = "none"
      BY <3>2, <2>1, <2>3, <2>5 DEF WillStop
    <3>4. Replaces(editor[e]) /\ \A q \in Procs : Others(r, q) => Others(editor[e], q)
      BY <3>2, <2>1 DEF Others, Replaces
    <3>5. \A q \in Procs : Alive(q)' => Alive(q) BY <2>3 DEF Alive
    <3>6. \A q \in Procs : Alive(q)' /\ Others(r, q) => \A f \in Editors : f # e => Over(f)
      BY <3>4, <3>5, Zenon DEF Ordered, OtherIsPast
    <3>. QED BY <3>1, <3>3, <3>6, <2>1, <2>3, <1>1, OrderedMoves, Zenon
  <2>. QED BY <2>4, <2>5
<1>12. CASE SeeGone(e)
  <2>. DEFINE r == [editor[e] EXCEPT !.pc = "start"]
  <2>1. /\ editor[e].pc = "gone" /\ ~Over(e) /\ Still /\ Becomes(e, r)
        /\ ~Alive(editor[e].old)
    BY <1>12 DEF SeeGone, At, Over, Past
  <2>2. r.pc = "start" BY <1>2 DEF Editor
  <2>. HIDE DEF r
  <2>3. \A q \in Procs : Alive(q)' => Alive(q) /\ Others(editor[e], q)
    BY <2>1 DEF Others, Alive
  <2>4. Replaces(editor[e]) BY <2>1 DEF Replaces
  <2>5. \A q \in Procs : Alive(q)' => \A f \in Editors : f # e => Over(f)
    BY <2>3, <2>4, Zenon DEF Ordered, OtherIsPast
  <2>6. \A q \in Procs : Alive(q)' => ~WillStop(editor[e], q)
    BY <2>1 DEF WillStop, Alive
  <2>. QED BY <2>1, <2>2, <2>5, <2>6, <1>1, OrderedMoves
<1>13. CASE StartDaemon(e)
  <2>. DEFINE r == [editor[e] EXCEPT !.pc = "up"]
  <2>1. /\ editor[e].pc = "start" /\ Becomes(e, r) /\ UNCHANGED <<conf, loaded, told>>
        /\ ~Over(e) /\ Replaces(editor[e])
    BY <1>13 DEF StartDaemon, At, Over, Past, Replaces
  <2>2. PICK n \in FreeProcs : proc' = [proc EXCEPT ![n] = "loading"]
    BY <1>13 DEF StartDaemon
  <2>3. /\ n \in Procs /\ ~Alive(n) /\ \A f \in Editors : editor[f].old # n
        /\ proc'[n] = "loading" /\ \A q \in Procs : q # n => proc'[q] = proc[q]
    BY <2>2, <1>1 DEF FreeProcs
  <2>4. r.pc = "up" BY <1>2 DEF Editor
  <2>5. editor'[e].pc = "up" /\ \A f \in Editors : f # e => editor'[f] = editor[f]
    BY <2>1, <2>4, <1>1 DEF Becomes, EditorsOK
  <2>6. \A f \in Editors : Over(f)' <=> Over(f) \/ f = e
    BY <2>5 DEF Over, Past
  <2>7. \A q \in Procs : Alive(q)' <=> Alive(q) \/ q = n
    BY <2>3 DEF Alive
  <2>8. ASSUME NEW f \in Editors, ~Over(f)' PROVE f # e /\ \A q \in Procs : ~Alive(q)
    <3>1. f # e /\ ~Over(f) BY <2>6, <2>8
    <3>2. \A q \in Procs : Others(editor[e], q) BY <2>1 DEF Others
    <3>. QED BY <3>1, <3>2, <2>1 DEF Ordered, OtherIsPast
  <2>9. OneUntilPast' BY <2>7, <2>8, Zenon DEF OneUntilPast
  <2>10. OtherIsPast'
    <3>. SUFFICES ASSUME NEW f \in Editors, Replaces(editor'[f]), NEW g \in Editors, g # f
                  PROVE  Over(g)'
      BY Zenon DEF OtherIsPast
    <3>1. f # e BY <2>5 DEF Replaces
    <3>2. g = e BY <3>1, Zenon DEF TwoCommands
    <3>. QED BY <3>2, <2>6
  <2>11. StaleIsStopped'
    <3>. SUFFICES ASSUME NEW q \in Procs, Stale(q)', q \notin told
                  PROVE  \E f \in Editors : WillStop(editor'[f], q)
      BY <2>1, Zenon DEF StaleIsStopped
    <3>1. q # n /\ Stale(q) BY <2>1, <2>3 DEF Stale, Alive
    <3>2. PICK f \in Editors : WillStop(editor[f], q) BY <3>1 DEF Ordered, StaleIsStopped
    <3>3. f # e BY <3>2, <2>1 DEF WillStop
    <3>. QED BY <3>2, <3>3, <2>5, Zenon
  <2>12. GoneIsTold'
    <3>1. \A f \in Editors : editor'[f].pc = "gone" => editor'[f] = editor[f]
      BY <2>5
    <3>2. \A f \in Editors : editor[f].pc = "gone" => editor[f].old \in Procs \ {n}
      BY <2>3, <1>1 DEF EditorsOK, Editor
    <3>. QED BY <3>1, <3>2, <2>1, <2>7 DEF Ordered, GoneIsTold
  <2>. QED BY <2>9, <2>10, <2>11, <2>12 DEF Ordered
<1>14. CASE WaitUp(e)
  <2>1. /\ Still /\ editor[e].pc = "up" /\ Ends(e)
        /\ \A p \in Procs : ~WillStop(editor[e], p)
    BY <1>14 DEF WaitUp, At, WillStop
  <2>. QED BY <2>1, <1>1, <1>4, OrderedMoves DEF Ends, Past, Replaces
<1>15. CASE Interrupted(e)
  <2>1. Still BY <1>15 DEF Interrupted
  <2>. DEFINE Leaves(pc) == Becomes(e, [New EXCEPT !.pc = pc])
  <2>2. CASE editor[e].pc \in {"probe", "write", "up"} /\ Leaves("over")
    <3>1. \A p \in Procs : ~WillStop(editor[e], p) BY <2>2 DEF WillStop
    <3>. QED BY <3>1, <2>1, <2>2, <1>1, <1>4, OrderedMoves DEF Past, Replaces
  <2>3. CASE Leaves("unstopped")
    <3>. DEFINE r == [New EXCEPT !.pc = "unstopped"]
    <3>1. r.pc \in Past /\ r.pc # "gone" /\ ~Replaces(r) /\ \A p \in Procs : WillStop(r, p)
      BY <1>4 DEF Past, Replaces, WillStop
    <3>. QED BY <3>1, <2>1, <2>3, <1>1, OrderedMoves
  <2>4. CASE editor[e].pc \in {"gone", "start"} /\ Leaves("unstarted")
    <3>. DEFINE r == [New EXCEPT !.pc = "unstarted"]
    <3>1. r.pc \in Past /\ r.pc # "gone" /\ ~Replaces(r)
      BY <1>4 DEF Past, Replaces
    <3>2. \A p \in Procs : Alive(p)' /\ WillStop(editor[e], p) => p \in told'
      BY <2>1, <2>4 DEF WillStop, Alive, Ordered, GoneIsTold
    <3>. HIDE DEF r
    <3>. QED BY <3>1, <3>2, <2>1, <2>4, <1>1, OrderedMoves DEF r
  <2>. QED BY <2>2, <2>3, <2>4, <1>15 DEF Interrupted, Ends
<1>. QED BY <1>5, <1>6, <1>7, <1>8, <1>9, <1>10, <1>11, <1>12, <1>13, <1>14, <1>15
         DEF Edit, Restart

LEMMA OrderedStep ==
  ASSUME TwoCommands, Inv(Seq(Line)), Ordered, [Next]_vars
  PROVE  Ordered'
<1>0. EditorsOK BY InvParts
<1>1. CASE UNCHANGED <<conf, editor, proc, loaded, told>>
  <2>1. \A p \in Procs : (Alive(p)' => Alive(p)) /\ (Stale(p)' => Stale(p))
    BY <1>1 DEF Alive, Stale
  <2>. QED BY <2>1, <1>0, <1>1, OrderedDaemon
<1>2. ASSUME NEW p \in Procs, Daemon(p) PROVE Ordered'
  <2>1. proc \in [Procs -> ProcStates] /\ loaded \in [Procs -> Confs]
    BY InvParts DEF DaemonsOK
  <2>2. UNCHANGED <<conf, editor>>
    BY <1>2 DEF Daemon, LoadConf, BindUdp, BindTcp, Retry, GiveUpWaiting, Shutdown, Stop
  <2>3. proc[p] # "none" /\ \E state \in ProcStates : Turns(p, state)
    BY <1>2 DEF Daemon, LoadConf, BindUdp, BindTcp, Retry, GiveUpWaiting, Shutdown, Stop,
                Exits, ProcStates
  <2>4. \/ loaded' = [loaded EXCEPT ![p] = conf]
        \/ proc[p] # "loading" /\ loaded' = loaded
    BY <1>2 DEF Daemon, LoadConf, BindUdp, BindTcp, Retry, GiveUpWaiting, Shutdown, Stop
  <2>5. \A q \in Procs : q # p => proc'[q] = proc[q]
    BY <2>1, <2>3 DEF Turns
  <2>6. \A q \in Procs : Alive(q)' => Alive(q) /\ (q \in told => q \in told')
    <3>1. told' = told \/ (told' = told \ {p} /\ Turns(p, "none"))
      BY <1>2 DEF Daemon, LoadConf, BindUdp, BindTcp, Retry, GiveUpWaiting, Shutdown, Stop,
                  Exits
    <3>2. Turns(p, "none") => proc'[p] = "none" BY <2>1 DEF Turns
    <3>. QED BY <3>1, <3>2, <2>3, <2>5 DEF Alive
  <2>7. \A q \in Procs : q # p => loaded'[q] = loaded[q]
    BY <2>1, <2>4
  <2>8. loaded'[p] = conf \/ (proc[p] # "loading" /\ loaded'[p] = loaded[p])
    BY <2>1, <2>4
  <2>9. \A q \in Procs : Stale(q)' => Stale(q)
    <3>1. Stale(p)' => Stale(p) BY <2>2, <2>6, <2>8 DEF Stale
    <3>2. \A q \in Procs : q # p /\ Stale(q)' => Stale(q)
      BY <2>2, <2>5, <2>6, <2>7 DEF Stale
    <3>. QED BY <3>1, <3>2
  <2>. QED BY <1>0, <2>2, <2>6, <2>9, OrderedDaemon
<1>3. ASSUME NEW e \in Editors,
             \/ \E cmd \in Command : BeginAdd(e, cmd) \/ BeginRemove(e, cmd)
             \/ Edit(e) \/ Restart(e) \/ Interrupted(e)
      PROVE  Ordered'
  BY <1>3, OrderedCommand, Zenon
<1>4. CASE AddressGoes \/ AddressComes
  BY <1>1, <1>4 DEF AddressGoes, AddressComes
<1>. QED BY <1>1, <1>2, <1>3, <1>4 DEF Next, vars

\* When both commands have come to an end, and no daemon is on its way, one that
\* serves has read the file that is there: the command that wrote it looked for
\* a daemon afterwards, and stopped the one that had read the earlier file, or had
\* told it to stop when it was interrupted.  Of a command interrupted between its
\* write and its SIGTERM it says nothing: the old daemon then serves the old file.
\* It is about two commands at most; a third one may find, of the two daemons that
\* the others started, the one that does not get the port (daemon.go:67-119).
THEOREM LatestIsServed == TwoCommands => (Spec => []LatestServed)
<1>. SUFFICES ASSUME TwoCommands PROVE Spec => []LatestServed
  OBVIOUS
<1>1. Ordered /\ Inv(Seq(Line)) /\ [Next]_vars => Ordered' BY OrderedStep
<1>2. Ordered => LatestServed
  <2>. SUFFICES ASSUME Ordered,
                       \A e \in Editors : editor[e].pc \in {"idle", "over", "unstarted"},
                       NEW p \in Procs, proc[p] = "serving", p \notin told
                PROVE  loaded[p] = conf
    BY DEF LatestServed
  <2>1. \A e \in Editors : ~WillStop(editor[e], p) BY DEF WillStop
  <2>2. ~Stale(p) BY <2>1 DEF Ordered, StaleIsStopped
  <2>. QED BY <2>2 DEF Stale, Alive
<1>. QED BY <1>1, <1>2, OrderedInit, ListsAlways, PTL DEF Spec
=============================================================================
