------------------------- MODULE Statistics_proofs -------------------------
(***************************************************************************)
(* What the rows of the statistics come to once the jobs are done, for any *)
(* number of requests, views and drinks.                                   *)
(*                                                                         *)
(* The properties speak of the end, when no job waits; the invariant has   *)
(* to say what holds on the way there.  A rebuild from drink d will do     *)
(* away with whatever is wrong from d on, so in every state the rows of    *)
(* the drinks before all rebuilds that wait (Clean) are right, in order    *)
(* and without gaps.  That stays so when a change commits because its own  *)
(* rebuild still waits, and is from no later drink than those it changes.  *)
(* What is missing among the drinks that are clean has a build waiting;    *)
(* builds wait in the order of their drinks, which is what keeps a row     *)
(* from being made before an earlier one.                                  *)
(*                                                                         *)
(* The rows that a job makes are those of a fold over a set of drinks; of  *)
(* what it makes of each part of the set something is shown by looking at  *)
(* a smallest part of which it would not hold (LeastSubset).               *)
(***************************************************************************)
EXTENDS Statistics, Volumes_proofs

-----------------------------------------------------------------------------
(* Numbers *)

\* The order of numbers, to be cited where the provers do not see that they are numbers.
LEMMA LessOrEqual == \A a, b \in Nat : a < b \/ a = b => a <= b
OBVIOUS

LEMMA Different == \A a, b \in Nat : a # b => a < b \/ b < a
OBVIOUS

LEMMA Less == \A a, b \in Nat : a < b => b >= a /\ ~(b <= a)
OBVIOUS

\* A least element is the least, and a greatest the greatest.
LEMMA MinIs ==
  ASSUME NEW S \in SUBSET Nat, NEW m \in S, \A x \in S : m <= x
  PROVE  Min(S) = m
<1>1. Min(S) \in S /\ \A x \in S : Min(S) <= x
  BY MinFacts
<1>2. Min(S) \in Nat /\ m \in Nat /\ Min(S) <= m /\ m <= Min(S)
  BY <1>1
<1> QED
  BY <1>2

LEMMA MaxIs ==
  ASSUME NEW S \in SUBSET Nat, NEW m \in S, \A x \in S : x <= m
  PROVE  Max(S) = m
<1>1. Max(S) \in S /\ \A x \in S : x <= Max(S)
  <2>1. m \in Nat /\ S # {}
    OBVIOUS
  <2> QED
    BY <2>1, MaxFacts
<1>2. Max(S) \in Nat /\ m \in Nat /\ Max(S) <= m /\ m <= Max(S)
  BY <1>1
<1> QED
  BY <1>2

-----------------------------------------------------------------------------
(* The statistics of one more drink *)

\* A drink's volume is part of the sum.
LEMMA VolumeIsPart ==
  ASSUME NEW D, NEW ds, IsFiniteSet(ds), \A x \in ds : D[x].volume \in Nat, NEW d \in ds
  PROVE  D[d].volume <= VolumeOf(D, ds)
<1>1. VolumeOf(D, ds) = D[d].volume + VolumeOf(D, ds \ {d})
  BY VolumeOfOne
<1>2. VolumeOf(D, ds \ {d}) \in Nat
  BY FS_RemoveElement, VolumeIsNat
<1> QED
  BY <1>1, <1>2

VolumesOf(D, ds) == {D[x].volume : x \in ds}

\* Some drink has the greatest volume.
LEMMA GreatestVolume ==
  ASSUME NEW D, NEW ds, IsFiniteSet(ds), ds # {}, \A x \in ds : D[x].volume \in Nat
  PROVE  /\ Max(VolumesOf(D, ds)) \in VolumesOf(D, ds)
         /\ \A x \in ds : D[x].volume <= Max(VolumesOf(D, ds))
<1>1. VolumesOf(D, ds) \in SUBSET Nat /\ VolumesOf(D, ds) # {}
  BY DEF VolumesOf
<1>2. VolumeOf(D, ds) \in Nat
  BY VolumeIsNat
<1>3. \A v \in VolumesOf(D, ds) : v <= VolumeOf(D, ds)
  BY VolumeIsPart DEF VolumesOf
<1>4. /\ Max(VolumesOf(D, ds)) \in VolumesOf(D, ds)
      /\ \A v \in VolumesOf(D, ds) : v <= Max(VolumesOf(D, ds))
  BY <1>1, <1>2, <1>3, MaxFacts
<1> QED
  BY <1>4 DEF VolumesOf

\* Volumes by drinker, or by session: key says which.
ByKey(D, key, ds) ==
  [u \in {key[x] : x \in ds} |-> VolumeOf(D, {x \in ds : key[x] = u})]

\* A dictionary of volumes by key after one more drink.
LEMMA PlusStep ==
  ASSUME NEW D, NEW key, NEW ds, IsFiniteSet(ds), NEW d, d \notin ds,
         \A x \in ds \cup {d} : D[x].volume \in Nat,
         NEW f, DOMAIN f = {key[x] : x \in ds},
         \A u \in DOMAIN f : f[u] = VolumeOf(D, {x \in ds : key[x] = u})
  PROVE  Plus(f, key[d], D[d].volume) = ByKey(D, key, ds \cup {d})
<1> DEFINE of(u) == {x \in ds : key[x] = u}
           ofAll(u) == {x \in ds \cup {d} : key[x] = u}
<1>1. \A u : IsFiniteSet(of(u)) /\ VolumeOf(D, of(u)) \in Nat
  <2> SUFFICES ASSUME NEW u PROVE IsFiniteSet(of(u)) /\ VolumeOf(D, of(u)) \in Nat
    OBVIOUS
  <2>1. IsFiniteSet(of(u))
    BY FS_Subset
  <2>2. \A x \in of(u) : D[x].volume \in Nat
    OBVIOUS
  <2> HIDE DEF of
  <2> QED
    BY <2>1, <2>2, VolumeIsNat
<1>2. \A u : u # key[d] => ofAll(u) = of(u)
  OBVIOUS
<1>3. VolumeOf(D, ofAll(key[d])) = D[d].volume + VolumeOf(D, of(key[d]))
  <2>1. ofAll(key[d]) = of(key[d]) \cup {d} /\ d \notin of(key[d])
    OBVIOUS
  <2>2. \A x \in of(key[d]) : D[x].volume \in Nat
    OBVIOUS
  <2>3. VolumeOf(D, of(key[d])) \in Nat /\ IsFiniteSet(of(key[d])) /\ D[d].volume \in Nat
    BY <1>1
  <2> HIDE DEF of, ofAll
  <2>4. VolumeOf(D, of(key[d]) \cup {d}) = VolumeOf(D, of(key[d])) + D[d].volume
    BY <2>1, <2>2, <2>3, VolumeWith
  <2> QED
    BY <2>1, <2>3, <2>4
<1>4. key[d] \notin DOMAIN f => VolumeOf(D, of(key[d])) = 0
  <2>1. key[d] \notin DOMAIN f => of(key[d]) = {}
    OBVIOUS
  <2> QED
    BY <2>1, NoVolume
<1>5. DOMAIN f \cup {key[d]} = {key[x] : x \in ds \cup {d}}
  OBVIOUS
<1>6. \A u \in DOMAIN f : f[u] = VolumeOf(D, of(u))
  OBVIOUS
<1>7. D[d].volume \in Nat
  OBVIOUS
<1> HIDE DEF of
<1>8. \A y \in DOMAIN f \cup {key[d]} :
        VolumeOf(D, ofAll(y)) = IF y # key[d] THEN f[y]
                                ELSE D[d].volume + (IF key[d] \in DOMAIN f THEN f[key[d]] ELSE 0)
  BY <1>1, <1>2, <1>3, <1>4, <1>6, <1>7
<1> QED
  BY <1>5, <1>8 DEF Plus, ByKey

\* Which drinks there may be.
DrinksOK ==
  /\ lastDrink \in Nat
  /\ DOMAIN drink \subseteq 1 .. lastDrink
  /\ \A d \in DOMAIN drink : drink[d] \in DrinkRow

\* There are finitely many drinks, with positive volumes.
LEMMA DrinkFacts ==
  ASSUME DrinksOK
  PROVE  /\ IsFiniteSet(DOMAIN drink) /\ DOMAIN drink \in SUBSET Nat
         /\ \A d \in DOMAIN drink : drink[d].volume \in Nat \ {0}
<1>1. IsFiniteSet(1 .. lastDrink)
  BY FS_Interval DEF DrinksOK
<1>2. IsFiniteSet(DOMAIN drink) /\ DOMAIN drink \in SUBSET Nat
  BY <1>1, FS_Subset DEF DrinksOK
<1> QED
  BY <1>2, StatisticsAssumption DEF DrinksOK, DrinkRow

\* StatsBuilder.build makes of the statistics of some drinks those of one more, later than
\* they are.
LEMMA BuildAddsADrink ==
  ASSUME DrinksOK, NEW ds \in SUBSET DOMAIN drink, NEW d \in DOMAIN drink,
         \A x \in ds : x < d,
         NEW prev, prev = IF ds = {} THEN NoStats ELSE StatsOf(drink, ds)
  PROVE  Build(d, prev) = StatsOf(drink, ds \cup {d})
<1> DEFINE all == ds \cup {d}
           v == drink[d].volume
           new == VolumesOf(drink, all)
           old == VolumesOf(drink, ds)
           keyU == [x \in DOMAIN drink |-> drink[x].user]
           keyS == [x \in DOMAIN drink |-> drink[x].session]
<1>1. /\ IsFiniteSet(ds) /\ d \notin ds /\ d \in Nat /\ ds \in SUBSET Nat
      /\ IsFiniteSet(all) /\ all \in SUBSET Nat
      /\ \A x \in all : drink[x].volume \in Nat \ {0}
  <2>1. IsFiniteSet(ds)
    BY DrinkFacts, FS_Subset
  <2>2. d \notin ds
    BY DrinkFacts
  <2> QED
    BY <2>1, <2>2, DrinkFacts, FS_AddElement
<1>2. /\ prev.pours = Cardinality(ds) /\ prev.total = VolumeOf(drink, ds)
      /\ prev.guest = (\E x \in ds : drink[x].user = Guest)
  BY NoVolume, FS_EmptySet DEF NoStats, StatsOf
<1>3. prev.pours + 1 = Cardinality(all)
  BY <1>1, <1>2, FS_AddElement, FS_CardinalityType
<1>4. prev.total + v = VolumeOf(drink, all)
  <2>1. \A x \in ds : drink[x].volume = drink[x].volume /\ drink[x].volume \in Nat
    BY <1>1
  <2> QED
    BY <1>1, <1>2, <2>1, VolumeWith
<1>5. (prev.guest \/ drink[d].user = Guest) = (\E x \in all : drink[x].user = Guest)
  BY <1>2
<1>6. prev.greatest \in Nat /\ v \in Nat
  <2>1. CASE ds = {}
    BY <1>1, <2>1 DEF NoStats
  <2>2. CASE ds # {}
    <3>1. Max(old) \in old
      BY <1>1, <2>2, GreatestVolume
    <3> QED
      BY <1>1, <2>2, <3>1 DEF StatsOf, VolumesOf
  <2> QED
    BY <2>1, <2>2
<1>7. /\ v > prev.greatest => \A x \in ds : drink[x].volume < v
      /\ v <= prev.greatest => /\ ds # {} /\ prev.greatest = Max(old) /\ prev.greatest \in old
                               /\ \A x \in ds : drink[x].volume <= prev.greatest
  <2>1. CASE ds = {}
    BY <1>1, <2>1 DEF NoStats
  <2>2. CASE ds # {}
    <3>1. Max(old) \in old /\ \A x \in ds : drink[x].volume <= Max(old)
      BY <1>1, <2>2, GreatestVolume
    <3>2. prev.greatest = Max(old)
      BY <2>2 DEF StatsOf, VolumesOf
    <3> QED
      BY <1>1, <1>6, <2>2, <3>1, <3>2
  <2> QED
    BY <2>1, <2>2
<1>8. Max({v, prev.greatest}) = IF v > prev.greatest THEN v ELSE prev.greatest
  <2>1. {v, prev.greatest} \in SUBSET Nat
    BY <1>6
  <2> QED
    BY <1>6, <2>1, MaxIs
<1>9. Max(new) = Max({v, prev.greatest})
  <2>1. new \in SUBSET Nat /\ v \in new /\ (prev.greatest \in old => prev.greatest \in new)
    BY <1>1 DEF VolumesOf
  <2>2. CASE v > prev.greatest
    <3>1. \A x \in new : x <= v
      BY <1>1, <1>6, <1>7, <2>2 DEF VolumesOf
    <3> QED
      BY <1>8, <2>1, <2>2, <3>1, MaxIs
  <2>3. CASE v <= prev.greatest
    <3>1. \A x \in new : x <= prev.greatest
      BY <1>1, <1>6, <1>7, <2>3 DEF VolumesOf
    <3> QED
      BY <1>6, <1>7, <1>8, <2>1, <2>3, <3>1, MaxIs
  <2> QED
    BY <1>6, <2>2, <2>3
<1>10. (IF v > prev.greatest THEN d ELSE prev.greatestId)
         = Min({x \in all : drink[x].volume = Max(new)})
  <2> DEFINE top == {x \in all : drink[x].volume = Max(new)}
  <2>1. top \in SUBSET Nat
    BY <1>1
  <2>2. CASE v > prev.greatest
    <3>1. top = {d}
      BY <1>1, <1>6, <1>7, <1>8, <1>9, <2>2
    <3>2. d \in top /\ \A x \in top : d <= x
      BY <1>1, <3>1
    <3> HIDE DEF top
    <3>3. Min(top) = d
      BY <2>1, <3>2, MinIs
    <3> QED
      BY <2>2, <3>3 DEF top
  <2>3. CASE v <= prev.greatest
    <3> DEFINE oldTop == {x \in ds : drink[x].volume = Max(old)}
               m == Min(oldTop)
    <3>1. Max(new) = Max(old) /\ ds # {}
      BY <1>6, <1>7, <1>8, <1>9, <2>3
    <3>2. oldTop \in SUBSET Nat /\ oldTop # {}
      BY <1>1, <1>7, <2>3 DEF VolumesOf
    <3>3. m \in oldTop /\ \A x \in oldTop : m <= x
      BY <3>2, MinFacts
    <3>4. m \in top /\ \A x \in top : m <= x
      <4>1. m \in ds /\ drink[m].volume = Max(new) /\ m \in Nat /\ m < d
        BY <1>1, <3>1, <3>3
      <4>2. \A x \in top : x = d \/ x \in oldTop
        BY <3>1
      <4>3. m \in top
        BY <4>1
      <4>4. \A x \in top : m <= x
        <5> SUFFICES ASSUME NEW x \in top PROVE m <= x
          OBVIOUS
        <5> HIDE DEF m, oldTop, top
        <5>1. CASE x = d
          BY <1>1, <4>1, <5>1
        <5>2. CASE x \in oldTop
          BY <3>3, <5>2
        <5> QED
          BY <4>2, <5>1, <5>2
      <4> QED
        BY <4>3, <4>4
    <3>5. Min(top) = m
      BY <2>1, <3>4, MinIs
    <3>6. prev.greatestId = m
      BY <3>1 DEF StatsOf, VolumesOf
    <3> QED
      BY <1>6, <2>3, <3>5, <3>6
  <2> QED
    BY <1>6, <2>2, <2>3
<1>11. Plus(prev.byDrinker, drink[d].user, v)
         = [u \in {drink[x].user : x \in all} |-> VolumeOf(drink, {x \in all : drink[x].user = u})]
  <2> DEFINE f == prev.byDrinker
  <2>1. DOMAIN f = {keyU[x] : x \in ds}
    <3>1. CASE ds = {}
      BY <3>1 DEF NoStats
    <3>2. CASE ds # {}
      <4>1. DOMAIN f = {drink[x].user : x \in ds}
        BY <3>2 DEF StatsOf
      <4> QED
        BY <4>1
    <3> QED
      BY <3>1, <3>2
  <2>2. \A u \in DOMAIN f : f[u] = VolumeOf(drink, {x \in ds : keyU[x] = u})
    <3>1. CASE ds = {}
      BY <2>1, <3>1
    <3>2. CASE ds # {}
      <4>1. \A u : {x \in ds : keyU[x] = u} = {x \in ds : drink[x].user = u}
        OBVIOUS
      <4> QED
        BY <2>1, <3>2, <4>1 DEF StatsOf
    <3> QED
      BY <3>1, <3>2
  <2>3. \A x \in all : drink[x].volume \in Nat
    BY <1>1
  <2> HIDE DEF f
  <2>4. Plus(f, keyU[d], v) = ByKey(drink, keyU, all)
    <3> HIDE DEF keyU
    <3> QED
      BY <1>1, <2>1, <2>2, <2>3, PlusStep
  <2>5. {keyU[x] : x \in all} = {drink[x].user : x \in all}
    OBVIOUS
  <2>6. \A u : {x \in all : keyU[x] = u} = {x \in all : drink[x].user = u}
    OBVIOUS
  <2>7. keyU[d] = drink[d].user
    OBVIOUS
  <2>8. \A u : VolumeOf(drink, {x \in all : keyU[x] = u})
               = VolumeOf(drink, {x \in all : drink[x].user = u})
    BY <2>6
  <2> HIDE DEF all, v, keyU
  <2>9. Plus(f, drink[d].user, v)
          = [u \in {keyU[x] : x \in all} |-> VolumeOf(drink, {x \in all : keyU[x] = u})]
    BY <2>4, <2>7 DEF ByKey
  <2> QED
    BY <2>5, <2>8, <2>9 DEF f
<1>12. Plus(prev.bySession, drink[d].session, v)
         = [s \in {drink[x].session : x \in all} |->
              VolumeOf(drink, {x \in all : drink[x].session = s})]
  <2> DEFINE f == prev.bySession
  <2>1. DOMAIN f = {keyS[x] : x \in ds}
    <3>1. CASE ds = {}
      BY <3>1 DEF NoStats
    <3>2. CASE ds # {}
      <4>1. DOMAIN f = {drink[x].session : x \in ds}
        BY <3>2 DEF StatsOf
      <4> QED
        BY <4>1
    <3> QED
      BY <3>1, <3>2
  <2>2. \A s \in DOMAIN f : f[s] = VolumeOf(drink, {x \in ds : keyS[x] = s})
    <3>1. CASE ds = {}
      BY <2>1, <3>1
    <3>2. CASE ds # {}
      <4>1. \A s : {x \in ds : keyS[x] = s} = {x \in ds : drink[x].session = s}
        OBVIOUS
      <4> QED
        BY <2>1, <3>2, <4>1 DEF StatsOf
    <3> QED
      BY <3>1, <3>2
  <2>3. \A x \in all : drink[x].volume \in Nat
    BY <1>1
  <2> HIDE DEF f
  <2>4. Plus(f, keyS[d], v) = ByKey(drink, keyS, all)
    <3> HIDE DEF keyS
    <3> QED
      BY <1>1, <2>1, <2>2, <2>3, PlusStep
  <2>5. {keyS[x] : x \in all} = {drink[x].session : x \in all}
    OBVIOUS
  <2>6. \A s : {x \in all : keyS[x] = s} = {x \in all : drink[x].session = s}
    OBVIOUS
  <2>7. keyS[d] = drink[d].session
    OBVIOUS
  <2>8. \A s : VolumeOf(drink, {x \in all : keyS[x] = s})
               = VolumeOf(drink, {x \in all : drink[x].session = s})
    BY <2>6
  <2> HIDE DEF all, v, keyS
  <2>9. Plus(f, drink[d].session, v)
          = [s \in {keyS[x] : x \in all} |-> VolumeOf(drink, {x \in all : keyS[x] = s})]
    BY <2>4, <2>7 DEF ByKey
  <2> QED
    BY <2>5, <2>8, <2>9 DEF f
<1> HIDE DEF all, v
<1> QED
  BY <1>3, <1>4, <1>5, <1>9, <1>10, <1>11, <1>12 DEF Build, StatsOf, VolumesOf, all, v

-----------------------------------------------------------------------------
(* The rows of a view *)

\* The drinks that table D has for view v, and those of them up to drink d.
ViewOf(D, v) == {d \in DOMAIN D : InView(D[d], v)}

UpTo(D, v, d) == {x \in ViewOf(D, v) : x <= d}

\* A row is what the drinks of its view up to its own come to.
RowIsRight(D, v, r) ==
  /\ r.drink \in ViewOf(D, v)
  /\ r.stats = StatsOf(D, UpTo(D, v, r.drink))
  /\ r.first <=> \A x \in ViewOf(D, v) : r.drink <= x
  /\ r.largest.session \in {D[x].session : x \in UpTo(D, v, r.drink)}

\* As far as the drinks in C are concerned, rows t are right, in the order of the drinks
\* and without gaps.
Good(D, v, t, C) ==
  /\ \A i \in DOMAIN t : t[i].drink \in C => RowIsRight(D, v, t[i])
  /\ \A i, j \in DOMAIN t : i < j /\ t[i].drink \in C /\ t[j].drink \in C =>
       t[i].drink < t[j].drink
  /\ \A i \in DOMAIN t, x \in ViewOf(D, v) :
       t[i].drink \in C /\ x < t[i].drink => x \in IdsOf(t)

\* There is a latest row, unless there is none.
Table(t) ==
  /\ DOMAIN t \in SUBSET Nat
  /\ \E n \in Nat : \A i \in DOMAIN t : i <= n

IsMade(m) == m = [rows |-> m.rows, raised |-> m.raised] /\ m.raised \in BOOLEAN

\* With a drink, C has those before it.
Lower(C) == \A y \in C, z \in DOMAIN drink : z < y => z \in C

\* A new row is the latest; the others stay as they are.
LEMMA WithRowFacts ==
  ASSUME NEW t, Table(t), NEW row
  PROVE  /\ Table(WithRow(t, row))
         /\ IdsOf(WithRow(t, row)) = IdsOf(t) \cup {row.drink}
         /\ \E id \in Nat : /\ id \notin DOMAIN t /\ \A i \in DOMAIN t : i < id
                            /\ DOMAIN WithRow(t, row) = DOMAIN t \cup {id}
                            /\ WithRow(t, row)[id] = row
                            /\ \A i \in DOMAIN t : WithRow(t, row)[i] = t[i]
<1> DEFINE S == {0} \cup DOMAIN t
           id == Max(S) + 1
           u == WithRow(t, row)
<1>1. PICK n \in Nat : \A i \in DOMAIN t : i <= n
  BY DEF Table
<1>2. Max(S) \in S /\ \A i \in S : i <= Max(S)
  <2>1. S \in SUBSET Nat /\ S # {} /\ \A i \in S : i <= n
    BY <1>1 DEF Table
  <2> HIDE DEF S
  <2> QED
    BY <2>1, MaxFacts
<1>3. Max(S) \in Nat
  BY <1>2 DEF Table
<1>4. /\ id \in Nat /\ id \notin DOMAIN t
      /\ \A i \in DOMAIN t : i \in Nat /\ i < id
  <2>1. \A i \in DOMAIN t : i \in Nat /\ i <= Max(S)
    BY <1>2 DEF Table
  <2> HIDE DEF S
  <2> QED
    BY <1>3, <2>1
<1>5. u = [i \in DOMAIN t \cup {id} |-> IF i = id THEN row ELSE t[i]]
  BY DEF WithRow
<1> HIDE DEF id, u
<1>6. /\ DOMAIN u = DOMAIN t \cup {id} /\ u[id] = row
      /\ \A i \in DOMAIN t : u[i] = t[i]
  BY <1>4, <1>5
<1>7. Table(u)
  <2>1. \A i \in DOMAIN u : i \in Nat /\ i <= id
    BY <1>4, <1>6
  <2> QED
    BY <1>4, <2>1 DEF Table
<1>8. IdsOf(u) = IdsOf(t) \cup {row.drink}
  BY <1>6 DEF IdsOf
<1> QED
  BY <1>4, <1>6, <1>7, <1>8 DEF u

\* get_for_drink finds a row if there is one.
LEMMA RowForFacts ==
  ASSUME NEW t, Table(t), NEW d \in IdsOf(t)
  PROVE  \E i \in DOMAIN t : RowFor(t, d) = t[i] /\ t[i].drink = d
<1> DEFINE S == {i \in DOMAIN t : t[i].drink = d}
<1>1. PICK n \in Nat : \A i \in DOMAIN t : i <= n
  BY DEF Table
<1>2. S \in SUBSET Nat /\ S # {} /\ \A i \in S : i <= n
  BY <1>1 DEF Table, IdsOf
<1>3. Max(S) \in S
  <2> HIDE DEF S
  <2> QED
    BY <1>2, MaxFacts
<1> QED
  BY <1>3 DEF RowFor

\* The drinks of a view in the two ways they are written.
LEMMA DrinksInView ==
  ASSUME NEW v
  PROVE  DrinksIn(v) = ViewOf(drink, v)
BY DEF DrinksIn, ViewOf

\* The row that CreateRow makes is right if it is made on top of right ones.
LEMMA NewRowIsRight ==
  ASSUME DrinksOK, NEW v, NEW x \in ViewOf(drink, v), NEW t, Table(t), NEW C, Lower(C),
         x \in C, IdsOf(t) \subseteq DOMAIN drink, Good(drink, v, t, C),
         \A y \in ViewOf(drink, v) : y < x => y \in IdsOf(t),
         NEW prev, prev = IF Built(t, x, v) = {}
                          THEN [stats |-> NoStats, largest |-> [session |-> None, volume |-> 0]]
                          ELSE RowFor(t, Max(Built(t, x, v)))
  PROVE  RowIsRight(drink, v, [drink |-> x, first |-> Built(t, x, v) = {},
                               stats |-> Build(x, prev.stats),
                               largest |-> LargestSession(x, prev.largest)])
<1> DEFINE prior == Built(t, x, v)
           last == Max(prior)
<1>1. /\ ViewOf(drink, v) \in SUBSET DOMAIN drink /\ DOMAIN drink \in SUBSET Nat
      /\ x \in Nat /\ x \in DOMAIN drink
  BY DrinkFacts DEF ViewOf
<1>2. prior = {y \in ViewOf(drink, v) : y < x}
  BY DrinksInView DEF Built
<1>3. UpTo(drink, v, x) = prior \cup {x}
  BY <1>1, <1>2 DEF UpTo
<1>4. /\ prior \in SUBSET DOMAIN drink /\ prior \in SUBSET Nat
      /\ \A y \in prior : y < x
  BY <1>1, <1>2
<1>5. prior # {} => /\ last \in prior /\ \A y \in prior : y <= last
                    /\ UpTo(drink, v, last) = prior
  <2> SUFFICES ASSUME prior # {}
               PROVE  /\ last \in prior /\ \A y \in prior : y <= last
                      /\ UpTo(drink, v, last) = prior
    OBVIOUS
  <2>1. \A y \in prior : y <= x
    BY <1>1, <1>4
  <2> HIDE DEF prior
  <2>2. last \in prior /\ \A y \in prior : y <= last
    BY <1>1, <1>4, <2>1, MaxFacts
  <2>3. \A y \in ViewOf(drink, v) : y <= last <=> y \in prior
    <3>1. last \in Nat /\ last < x /\ \A y \in ViewOf(drink, v) : y \in Nat
      BY <1>1, <1>4, <2>2
    <3> QED
      BY <1>1, <1>2, <2>2, <3>1
  <2>4. prior \in SUBSET ViewOf(drink, v)
    BY <1>2
  <2> QED
    BY <2>2, <2>3, <2>4 DEF UpTo
<1>6. prior # {} => RowIsRight(drink, v, prev) /\ prev.drink = last
  <2> SUFFICES ASSUME prior # {} PROVE RowIsRight(drink, v, prev) /\ prev.drink = last
    OBVIOUS
  <2>1. last \in IdsOf(t) /\ last \in C
    BY <1>4, <1>5 DEF Built, Lower
  <2>2. prev = RowFor(t, last)
    OBVIOUS
  <2> HIDE DEF last, prior
  <2>3. PICK i \in DOMAIN t : prev = t[i] /\ t[i].drink = last
    BY <2>1, <2>2, RowForFacts
  <2> QED
    BY <2>1, <2>3 DEF Good
<1>7. Build(x, prev.stats) = StatsOf(drink, prior \cup {x})
  <2>1. prev.stats = IF prior = {} THEN NoStats ELSE StatsOf(drink, prior)
    <3>1. CASE prior = {}
      BY <3>1
    <3>2. CASE prior # {}
      BY <1>5, <1>6, <3>2 DEF RowIsRight
    <3> QED
      BY <3>1, <3>2
  <2> HIDE DEF prior
  <2> QED
    BY <1>1, <1>4, <2>1, BuildAddsADrink
<1>8. (prior = {}) <=> \A y \in ViewOf(drink, v) : x <= y
  BY <1>1, <1>2
<1>9. LargestSession(x, prev.largest).session \in {drink[y].session : y \in UpTo(drink, v, x)}
  <2>1. x \in UpTo(drink, v, x)
    BY <1>3
  <2>2. CASE LargestSession(x, prev.largest).session = drink[x].session
    BY <2>1, <2>2
  <2>3. CASE LargestSession(x, prev.largest).session # drink[x].session
    <3>1. /\ ~(SessionVolume(drink[x].session) >= prev.largest.volume)
          /\ LargestSession(x, prev.largest) = prev.largest
      BY <2>3 DEF LargestSession
    <3>2. prior # {}
      <4>1. SessionVolume(drink[x].session) \in Nat
        <5> DEFINE ds == {d \in DOMAIN drink : drink[d].session = drink[x].session}
        <5>1. IsFiniteSet(ds) /\ \A d \in ds : drink[d].volume \in Nat
          BY DrinkFacts, FS_Subset
        <5> HIDE DEF ds
        <5>2. VolumeOf(drink, ds) \in Nat
          BY <5>1, VolumeIsNat
        <5> QED
          BY <5>2 DEF SessionVolume, ds
      <4>2. prior = {} => prev.largest.volume = 0
        OBVIOUS
      <4> QED
        BY <3>1, <4>1, <4>2
    <3>3. prev.largest.session \in {drink[y].session : y \in UpTo(drink, v, last)}
      BY <1>6, <3>2 DEF RowIsRight
    <3> QED
      BY <1>3, <1>5, <3>1, <3>2, <3>3
  <2> QED
    BY <2>2, <2>3
<1> HIDE DEF prior
<1> QED
  BY <1>3, <1>7, <1>8, <1>9 DEF RowIsRight, prior

\* A row for a drink that C leaves out changes nothing about the others; one for a drink
\* in C has to be the first for it, with rows for all drinks before it.
LEMMA CreateRowAdds ==
  ASSUME DrinksOK, NEW v, NEW x \in ViewOf(drink, v), NEW m, IsMade(m), Table(m.rows),
         IdsOf(m.rows) \subseteq DOMAIN drink,
         NEW C, Lower(C), Good(drink, v, m.rows, C),
         x \in C => /\ x \notin IdsOf(m.rows)
                    /\ \A y \in ViewOf(drink, v) : y < x => y \in IdsOf(m.rows),
         NEW n, n = CreateRowUnchecked(x, m, v)
  PROVE  /\ IsMade(n) /\ n.raised = m.raised /\ Table(n.rows)
         /\ IdsOf(n.rows) = IdsOf(m.rows) \cup {x}
         /\ Good(drink, v, n.rows, C)
<1> DEFINE t == m.rows
           prior == Built(t, x, v)
           prev == IF prior = {} THEN [stats |-> NoStats, largest |-> [session |-> None, volume |-> 0]]
                   ELSE RowFor(t, Max(prior))
           row == [drink |-> x, first |-> prior = {}, stats |-> Build(x, prev.stats),
                   largest |-> LargestSession(x, prev.largest)]
           u == WithRow(t, row)
<1>1. n = [m EXCEPT !.rows = u]
  BY DEF CreateRowUnchecked
<1>2. IsMade(n) /\ n.raised = m.raised /\ n.rows = u
  <2> HIDE DEF u
  <2> QED
    BY <1>1 DEF IsMade
<1>3. x \in C => RowIsRight(drink, v, row)
  <2> SUFFICES ASSUME x \in C PROVE RowIsRight(drink, v, row)
    OBVIOUS
  <2>1. /\ Table(t) /\ IdsOf(t) \subseteq DOMAIN drink /\ Good(drink, v, t, C)
        /\ \A y \in ViewOf(drink, v) : y < x => y \in IdsOf(t)
    OBVIOUS
  <2>2. prev = IF Built(t, x, v) = {} THEN [stats |-> NoStats, largest |-> [session |-> None, volume |-> 0]]
               ELSE RowFor(t, Max(Built(t, x, v)))
    OBVIOUS
  <2> HIDE DEF prev, t
  <2> QED
    BY <2>1, <2>2, NewRowIsRight
<1>4. row.drink = x
  OBVIOUS
<1> HIDE DEF row
<1>5. /\ Table(u) /\ IdsOf(u) = IdsOf(t) \cup {x}
      /\ \E id \in Nat : /\ id \notin DOMAIN t /\ \A i \in DOMAIN t : i < id
                         /\ DOMAIN u = DOMAIN t \cup {id}
                         /\ u[id] = row
                         /\ \A i \in DOMAIN t : u[i] = t[i]
  <2>1. Table(t) /\ u = WithRow(t, row)
    OBVIOUS
  <2> HIDE DEF t, u
  <2>2. /\ Table(WithRow(t, row))
        /\ IdsOf(WithRow(t, row)) = IdsOf(t) \cup {row.drink}
        /\ \E id \in Nat : /\ id \notin DOMAIN t /\ \A i \in DOMAIN t : i < id
                           /\ DOMAIN WithRow(t, row) = DOMAIN t \cup {id}
                           /\ WithRow(t, row)[id] = row
                           /\ \A i \in DOMAIN t : WithRow(t, row)[i] = t[i]
    BY <2>1, WithRowFacts, Zenon
  <2> QED
    BY <1>4, <2>1, <2>2, Zenon
<1>6. PICK id \in Nat : /\ id \notin DOMAIN t /\ \A i \in DOMAIN t : i < id
                        /\ DOMAIN u = DOMAIN t \cup {id}
                        /\ u[id] = row
                        /\ \A i \in DOMAIN t : u[i] = t[i]
  BY <1>5
<1>7. /\ ViewOf(drink, v) \in SUBSET DOMAIN drink /\ DOMAIN drink \in SUBSET Nat
      /\ x \in Nat /\ x \in DOMAIN drink
  BY DrinkFacts DEF ViewOf
<1>8. DOMAIN t \in SUBSET Nat
  BY DEF Table
<1>9. \A i \in DOMAIN t : t[i].drink \in IdsOf(t)
  BY DEF IdsOf
<1> HIDE DEF u, t
<1>10. Good(drink, v, t, C)
  BY DEF t
<1>11. Good(drink, v, u, C)
  <2>1. \A i \in DOMAIN u : u[i].drink \in C => RowIsRight(drink, v, u[i])
    BY <1>3, <1>4, <1>6, <1>10 DEF Good
  <2>2. ASSUME NEW i \in DOMAIN u, NEW j \in DOMAIN u, i < j, u[i].drink \in C, u[j].drink \in C
        PROVE  u[i].drink < u[j].drink
    <3>1. i \in DOMAIN t
      BY <1>6, <1>8, <2>2
    <3>2. CASE j \in DOMAIN t
      BY <1>6, <1>10, <2>2, <3>1, <3>2 DEF Good
    <3>3. CASE j = id
      <4>1. t[i].drink \in C /\ x \in C /\ u[j].drink = x /\ t[i].drink \in IdsOf(t)
        BY <1>4, <1>6, <1>9, <2>2, <3>1, <3>3
      <4>2. t[i].drink \in Nat /\ x \notin IdsOf(t)
        BY <1>7, <4>1 DEF t
      <4>3. ~(x < t[i].drink)
        BY <1>10, <3>1, <4>1, <4>2 DEF Good
      <4>4. x # t[i].drink
        BY <4>1, <4>2
      <4> QED
        BY <1>6, <1>7, <3>1, <4>1, <4>2, <4>3, <4>4
    <3> QED
      BY <1>6, <3>2, <3>3
  <2>3. ASSUME NEW i \in DOMAIN u, NEW y \in ViewOf(drink, v), u[i].drink \in C, y < u[i].drink
        PROVE  y \in IdsOf(u)
    <3>1. CASE i \in DOMAIN t
      BY <1>5, <1>6, <1>10, <2>3, <3>1 DEF Good
    <3>2. CASE i = id
      BY <1>4, <1>5, <1>6, <2>3, <3>2 DEF t
    <3> QED
      BY <1>6, <3>1, <3>2
  <2> QED
    BY <2>1, <2>2, <2>3 DEF Good
<1> QED
  BY <1>2, <1>5, <1>11 DEF t

-----------------------------------------------------------------------------
(* Drinks one after the other *)

\* The greatest of a part of S, and what is left of a larger part without its own.
LEMMA MaxOfPart ==
  ASSUME NEW n \in Nat, NEW S \in SUBSET (0 .. n), NEW s \in SUBSET S, s # {}
  PROVE  /\ Max(s) \in s /\ \A x \in s : x <= Max(s)
         /\ \A T \in SUBSET S : s \subseteq T =>
              s \ {Max(s)} \in SUBSET (T \ {Max(T)})
<1>1. \A T \in SUBSET S : T # {} => Max(T) \in T /\ \A x \in T : x <= Max(T)
  <2> SUFFICES ASSUME NEW T \in SUBSET S, T # {}
               PROVE  Max(T) \in T /\ \A x \in T : x <= Max(T)
    OBVIOUS
  <2>1. T \in SUBSET Nat /\ \A x \in T : x <= n
    OBVIOUS
  <2> QED
    BY <2>1, MaxFacts
<1>2. ASSUME NEW T \in SUBSET S, s \subseteq T, Max(T) \in s PROVE Max(s) = Max(T)
  <2>1. T \in SUBSET S /\ T # {}
    BY <1>2
  <2>2. Max(T) \in T /\ \A x \in T : x <= Max(T)
    BY <1>1, <2>1
  <2>3. Max(s) \in s /\ \A x \in s : x <= Max(s)
    BY <1>1
  <2>4. Max(T) <= Max(s) /\ Max(s) <= Max(T)
    BY <1>2, <2>2, <2>3
  <2>5. T \in SUBSET Nat /\ s \in SUBSET Nat
    BY <2>1
  <2>6. Max(T) \in Nat /\ Max(s) \in Nat
    BY <2>2, <2>3, <2>5
  <2> QED
    BY <2>4, <2>6
<1> QED
  BY <1>1, <1>2

\* f is what _build_single_view makes of base and any of the drinks in S.
RowsAdded(f, base, v, S) ==
  f = [s \in SUBSET S |-> IF s = {} THEN base ELSE CreateRow(Max(s), f[s \ {Max(s)}], v)]

\* The fold is the function that f stands for, of all drinks in S;
LEMMA RowsAddedIsChosen ==
  ASSUME NEW base, NEW v, NEW S
  PROVE  CreateRows(S, base, v)
           = (CHOOSE f : RowsAdded(f, base, v, S))[S]
BY DEF CreateRows, FoldAscending, MapThenFoldSet, RowsAdded

\* and there is one.
LEMMA RowsAddedExists ==
  ASSUME NEW base, NEW v, NEW n \in Nat, NEW S \in SUBSET (0 .. n)
  PROVE  \E f : RowsAdded(f, base, v, S)
<1> DEFINE B == {T \in SUBSET S : ~\E f : RowsAdded(f, base, v, T)}
<1>1. SUFFICES ASSUME B # {} PROVE FALSE
  OBVIOUS
<1>2. IsFiniteSet(S)
  <2>1. IsFiniteSet(0 .. n)
    BY FS_Interval
  <2> QED
    BY <2>1, FS_Subset
<1>3. PICK T \in B : \A U \in SUBSET T : U # T => U \notin B
  <2>1. B \in SUBSET (SUBSET S)
    OBVIOUS
  <2> HIDE DEF B
  <2> QED
    BY <1>1, <1>2, <2>1, LeastSubset
<1>4. T # {}
  <2>1. RowsAdded([s \in SUBSET {} |-> base], base, v, {})
    BY DEF RowsAdded
  <2> QED
    BY <2>1
<1> DEFINE U == T \ {Max(T)}
<1>5. \A s \in SUBSET T : s # {} => Max(s) \in s /\ s \ {Max(s)} \in SUBSET U
  BY <1>4, MaxOfPart
<1>6. PICK g : RowsAdded(g, base, v, U)
  <2>1. U \in SUBSET T /\ U # T /\ U \in SUBSET S
    BY <1>4, <1>5
  <2> QED
    BY <1>3, <2>1
<1>7. \A s \in SUBSET U : g[s] = IF s = {} THEN base ELSE CreateRow(Max(s), g[s \ {Max(s)}], v)
  BY <1>6 DEF RowsAdded
<1> DEFINE step(s, w) == CreateRow(Max(s), w, v)
           h == [s \in SUBSET T |-> IF s = {} THEN base ELSE step(s, g[s \ {Max(s)}])]
<1>8. \A s \in SUBSET U : s \in SUBSET T /\ h[s] = g[s]
  BY <1>7
<1>9. \A s \in SUBSET T : s # {} => h[s \ {Max(s)}] = g[s \ {Max(s)}]
  BY <1>5, <1>8
<1> HIDE DEF step
<1>10. h = [s \in SUBSET T |-> IF s = {} THEN base ELSE step(s, h[s \ {Max(s)}])]
  BY <1>9
<1>11. RowsAdded(h, base, v, T)
  BY <1>10 DEF RowsAdded, step
<1> QED
  BY <1>3, <1>11

LEMMA RowsAddedFacts ==
  ASSUME NEW base, NEW v, NEW n \in Nat, NEW S \in SUBSET (0 .. n)
  PROVE  \E f : RowsAdded(f, base, v, S) /\ CreateRows(S, base, v) = f[S]
BY RowsAddedExists, RowsAddedIsChosen

\* f is what rebuild_from_id makes of base and any of the drinks in S.
AllBuilt(f, base, S) ==
  f = [s \in SUBSET S |-> IF s = {} THEN base ELSE BuildAllViews(Max(s), f[s \ {Max(s)}])]

\* The same of the fold over the drinks of a rebuild.
LEMMA AllBuiltIsChosen ==
  ASSUME NEW base, NEW S
  PROVE  FoldAscending(BuildAllViews, base, S)
           = (CHOOSE f : AllBuilt(f, base, S))[S]
BY DEF FoldAscending, MapThenFoldSet, AllBuilt

LEMMA AllBuiltExists ==
  ASSUME NEW base, NEW n \in Nat, NEW S \in SUBSET (0 .. n)
  PROVE  \E f : AllBuilt(f, base, S)
<1> DEFINE B == {T \in SUBSET S : ~\E f : AllBuilt(f, base, T)}
<1>1. SUFFICES ASSUME B # {} PROVE FALSE
  OBVIOUS
<1>2. IsFiniteSet(S)
  <2>1. IsFiniteSet(0 .. n)
    BY FS_Interval
  <2> QED
    BY <2>1, FS_Subset
<1>3. PICK T \in B : \A U \in SUBSET T : U # T => U \notin B
  <2>1. B \in SUBSET (SUBSET S)
    OBVIOUS
  <2> HIDE DEF B
  <2> QED
    BY <1>1, <1>2, <2>1, LeastSubset
<1>4. T # {}
  <2>1. AllBuilt([s \in SUBSET {} |-> base], base, {})
    BY DEF AllBuilt
  <2> QED
    BY <2>1
<1> DEFINE U == T \ {Max(T)}
<1>5. \A s \in SUBSET T : s # {} => Max(s) \in s /\ s \ {Max(s)} \in SUBSET U
  BY <1>4, MaxOfPart
<1>6. PICK g : AllBuilt(g, base, U)
  <2>1. U \in SUBSET T /\ U # T /\ U \in SUBSET S
    BY <1>4, <1>5
  <2> QED
    BY <1>3, <2>1
<1>7. \A s \in SUBSET U : g[s] = IF s = {} THEN base ELSE BuildAllViews(Max(s), g[s \ {Max(s)}])
  BY <1>6 DEF AllBuilt
<1> DEFINE step(s, w) == BuildAllViews(Max(s), w)
           h == [s \in SUBSET T |-> IF s = {} THEN base ELSE step(s, g[s \ {Max(s)}])]
<1>8. \A s \in SUBSET U : s \in SUBSET T /\ h[s] = g[s]
  BY <1>7
<1>9. \A s \in SUBSET T : s # {} => h[s \ {Max(s)}] = g[s \ {Max(s)}]
  BY <1>5, <1>8
<1> HIDE DEF step
<1>10. h = [s \in SUBSET T |-> IF s = {} THEN base ELSE step(s, h[s \ {Max(s)}])]
  BY <1>9
<1>11. AllBuilt(h, base, T)
  BY <1>10 DEF AllBuilt, step
<1> QED
  BY <1>3, <1>11

LEMMA AllBuiltFacts ==
  ASSUME NEW base, NEW n \in Nat, NEW S \in SUBSET (0 .. n)
  PROVE  \E f : AllBuilt(f, base, S) /\ FoldAscending(BuildAllViews, base, S) = f[S]
BY AllBuiltExists, AllBuiltIsChosen

-----------------------------------------------------------------------------
(* What a job makes of the rows of a view *)

\* The database refuses a second row (drink, user, keg, session) without a NULL.
Full(v) == None \notin {v.user, v.session, v.keg}

\* n is m with rows for the drinks ds, right as far as C goes.
Added(n, m, v, ds, C) ==
  /\ Table(n.rows)
  /\ IdsOf(n.rows) = IdsOf(m.rows) \cup ds
  /\ Good(drink, v, n.rows, C)

\* _build_single_view makes a row for each drink of its build list, or raises because
\* the drink has one in the view of its drinker, keg and session.
LEMMA CreateRowsAdds ==
  ASSUME DrinksOK, NEW v, NEW d \in ViewOf(drink, v), NEW m, IsMade(m), ~m.raised,
         Table(m.rows), IdsOf(m.rows) \subseteq DOMAIN drink,
         NEW C, Lower(C), Good(drink, v, m.rows, C), d \in C => d \notin IdsOf(m.rows),
         NEW n, n = CreateRows(BuildList(m.rows, d, v), m, v)
  PROVE  /\ IsMade(n)
         /\ d \notin IdsOf(m.rows) => ~n.raised
         /\ Full(v) /\ d \in IdsOf(m.rows) => n.raised
         /\ ~n.raised => Added(n, m, v, BuildList(m.rows, d, v), C)
<1> DEFINE t == m.rows
           L == BuildList(t, d, v)
<1>1. /\ ViewOf(drink, v) \in SUBSET DOMAIN drink /\ DOMAIN drink \in SUBSET Nat
      /\ d \in Nat /\ d \in DOMAIN drink
  BY DrinkFacts DEF ViewOf
<1>2. /\ d \in L
      /\ \A x : x \in L <=> x = d \/ /\ x \in ViewOf(drink, v) /\ x < d
                                     /\ \A y \in IdsOf(t) \cap ViewOf(drink, v) :
                                          y < d => y < x
  BY DrinksInView DEF BuildList, Built
<1> HIDE DEF L
<1>3. lastDrink \in Nat /\ L \in SUBSET (0 .. lastDrink)
  BY <1>1, <1>2 DEF DrinksOK
<1>4. PICK f : RowsAdded(f, m, v, L) /\ CreateRows(L, m, v) = f[L]
  BY <1>3, RowsAddedFacts
<1>5. /\ f[{}] = m
      /\ \A s \in SUBSET L : s # {} => f[s] = CreateRow(Max(s), f[s \ {Max(s)}], v)
  BY <1>4 DEF RowsAdded
<1> DEFINE Early(U) == \A x \in L, y \in U : x < y => x \in U
           Right(U) ==
             /\ IsMade(f[U])
             /\ d \notin IdsOf(t) \/ d \notin U => ~f[U].raised
             /\ Full(v) /\ d \in IdsOf(t) /\ d \in U => f[U].raised
             /\ ~f[U].raised => Added(f[U], m, v, U, C)
           B == {U \in SUBSET L : Early(U) /\ ~Right(U)}
<1>6. B = {}
  <2> SUFFICES ASSUME B # {} PROVE FALSE
    OBVIOUS
  <2>1. PICK U \in B : \A W \in SUBSET U : W # U => W \notin B
    <3>1. IsFiniteSet(L)
      <4>1. IsFiniteSet(0 .. lastDrink)
        BY <1>3, FS_Interval
      <4> QED
        BY <1>3, <4>1, FS_Subset
    <3>2. B \in SUBSET (SUBSET L)
      OBVIOUS
    <3> HIDE DEF B
    <3> QED
      BY <3>1, <3>2, LeastSubset
  <2>2. U \in SUBSET L /\ Early(U) /\ ~Right(U)
    OBVIOUS
  <2>3. U # {}
    <3>1. Right({})
      BY <1>5 DEF Added
    <3> QED
      BY <2>2, <3>1
  <2> DEFINE x == Max(U)
             W == U \ {x}
  <2>4. x \in U /\ \A y \in U : y <= x
    BY <1>3, <2>2, <2>3, MaxOfPart
  <2>5. x \in ViewOf(drink, v) /\ x \in L /\ x \in Nat
    BY <1>1, <1>2, <2>2, <2>4
  <2>6. Early(W) /\ W \in SUBSET L /\ W \in SUBSET U /\ W # U
    <3>1. \A y \in W : y \in Nat /\ y < x
      BY <1>3, <2>2, <2>4, <2>5
    <3>2. \A z \in L, y \in W : z < y => z # x
      BY <1>3, <2>5, <3>1
    <3> HIDE DEF x
    <3> QED
      BY <2>2, <2>4, <3>2
  <2>7. Right(W)
    BY <2>1, <2>6
  <2>8. f[U] = CreateRow(x, f[W], v)
    BY <1>5, <2>2, <2>3
  <2>9. x = d <=> d \in U
    <3>1. \A y \in L : y = d \/ y < d
      BY <1>2
    <3> QED
      BY <1>1, <2>2, <2>4, <2>5, <3>1
  <2>10. d \notin W
    BY <2>9
  <2> HIDE DEF x, W
  <2>11. IsMade(f[W]) /\ ~f[W].raised /\ Added(f[W], m, v, W, C)
    BY <2>7, <2>10
  <2>12. x \in IdsOf(f[W].rows) <=> x \in IdsOf(t)
    BY <2>11 DEF Added, W
  <2>13. x \in IdsOf(t) => x = d
    <3>1. x < d => \A y \in IdsOf(t) \cap ViewOf(drink, v) : y < d => y < x
      BY <1>1, <1>2, <2>5
    <3>2. x = d \/ x < d
      BY <1>2, <2>5
    <3> QED
      BY <2>5, <3>1, <3>2
  <2>14. CASE Full(v) /\ x \in IdsOf(t)
    <3>1. f[U] = [f[W] EXCEPT !.raised = TRUE]
      BY <2>8, <2>12, <2>14 DEF CreateRow, Full
    <3>2. IsMade(f[U]) /\ f[U].raised
      BY <2>11, <3>1 DEF IsMade
    <3> QED
      BY <2>2, <2>9, <2>13, <2>14, <3>2
  <2>15. CASE ~(Full(v) /\ x \in IdsOf(t))
    <3>1. f[U] = CreateRowUnchecked(x, f[W], v)
      BY <2>8, <2>11, <2>12, <2>15 DEF CreateRow, Full
    <3>2. x \in C => /\ x \notin IdsOf(f[W].rows)
                     /\ \A y \in ViewOf(drink, v) : y < x => y \in IdsOf(f[W].rows)
      <4> SUFFICES ASSUME x \in C
                   PROVE  /\ x \notin IdsOf(f[W].rows)
                          /\ \A y \in ViewOf(drink, v) : y < x => y \in IdsOf(f[W].rows)
        OBVIOUS
      <4>1. x \notin IdsOf(f[W].rows)
        BY <2>12, <2>13
      <4>2. ASSUME NEW y \in ViewOf(drink, v), y < x, y \notin IdsOf(t) PROVE y \in W
        <5>1. y \in Nat /\ y < d
          BY <1>1, <1>2, <2>5, <4>2
        <5>2. ASSUME NEW z \in IdsOf(t) \cap ViewOf(drink, v), z < d, ~(y < z => FALSE) PROVE FALSE
          <6>1. z \in Nat /\ z \in DOMAIN drink
            BY <1>1
          <6>2. z < x
            <7>1. CASE x = d
              BY <5>2, <7>1
            <7>2. CASE x # d
              BY <1>2, <2>5, <5>2, <7>2
            <7> QED
              BY <7>1, <7>2
          <6>3. z \in C
            BY <6>1, <6>2 DEF Lower
          <6>4. PICK i \in DOMAIN t : t[i].drink = z
            BY DEF IdsOf
          <6> QED
            BY <4>2, <5>2, <6>3, <6>4 DEF Good
        <5>3. \A z \in IdsOf(t) \cap ViewOf(drink, v) : z < d => z < y
          <6> SUFFICES ASSUME NEW z \in IdsOf(t) \cap ViewOf(drink, v), z < d PROVE z < y
            OBVIOUS
          <6>1. z \in Nat
            BY <1>1
          <6>2. ~(y < z) /\ y # z
            BY <4>2, <5>2
          <6> QED
            BY <5>1, <6>1, <6>2
        <5>4. y \in L
          BY <1>2, <4>2, <5>1, <5>3
        <5> QED
          BY <2>2, <2>4, <4>2, <5>1, <5>4 DEF W
      <4>3. IdsOf(f[W].rows) = IdsOf(t) \cup W
        BY <2>11 DEF Added
      <4> QED
        BY <4>1, <4>2, <4>3
    <3>3. IdsOf(f[W].rows) \subseteq DOMAIN drink
      BY <1>1, <1>2, <2>6, <2>11 DEF Added
    <3>4. /\ IsMade(f[U]) /\ f[U].raised = f[W].raised /\ Table(f[U].rows)
          /\ IdsOf(f[U].rows) = IdsOf(f[W].rows) \cup {x}
          /\ Good(drink, v, f[U].rows, C)
      <4> DEFINE a == f[W]
                 b == f[U]
      <4>1. Table(a.rows) /\ Good(drink, v, a.rows, C) /\ IsMade(a)
        BY <2>11 DEF Added
      <4>2. b = CreateRowUnchecked(x, a, v)
        BY <3>1
      <4>3. /\ IdsOf(a.rows) \subseteq DOMAIN drink
            /\ x \in C => /\ x \notin IdsOf(a.rows)
                          /\ \A y \in ViewOf(drink, v) : y < x => y \in IdsOf(a.rows)
        BY <3>2, <3>3
      <4> HIDE DEF a, b
      <4>4. /\ IsMade(b) /\ b.raised = a.raised /\ Table(b.rows)
            /\ IdsOf(b.rows) = IdsOf(a.rows) \cup {x}
            /\ Good(drink, v, b.rows, C)
        BY <2>5, <4>1, <4>2, <4>3, CreateRowAdds
      <4> QED
        BY <4>4 DEF a, b
    <3>5. U = W \cup {x}
      BY <2>4 DEF W
    <3>6. Added(f[U], m, v, U, C)
      BY <2>11, <3>4, <3>5 DEF Added
    <3> QED
      BY <2>2, <2>9, <2>11, <2>15, <3>4, <3>6
  <2> QED
    BY <2>14, <2>15
<1>7. L \in SUBSET L /\ Early(L)
  OBVIOUS
<1>8. Right(L)
  BY <1>6, <1>7
<1> QED
  BY <1>2, <1>4, <1>8 DEF L

\* The same of the whole function: of rows as they should be the lookup finds one.
LEMMA BuildSingleViewAdds ==
  ASSUME DrinksOK, NEW v, NEW d \in ViewOf(drink, v), NEW m, IsMade(m), ~m.raised,
         Table(m.rows), IdsOf(m.rows) \subseteq DOMAIN drink,
         NEW C, Lower(C), Good(drink, v, m.rows, C), d \in C => d \notin IdsOf(m.rows),
         NEW n, n = BuildSingleView(m, d, v)
  PROVE  /\ IsMade(n)
         /\ d \in C => ~n.raised
         /\ Full(v) /\ d \in IdsOf(m.rows) => n.raised
         /\ ~n.raised => Added(n, m, v, BuildList(m.rows, d, v), C)
<1> DEFINE t == m.rows
           last == {i \in DOMAIN t : Built(t, d, v) # {} /\ t[i].drink = Max(Built(t, d, v))}
           made == CreateRows(BuildList(t, d, v), m, v)
<1>1. n = IF Cardinality(last) > 1 THEN [m EXCEPT !.raised = TRUE] ELSE made
  BY DEF BuildSingleView
<1>2. /\ IsMade(made)
      /\ d \notin IdsOf(m.rows) => ~made.raised
      /\ Full(v) /\ d \in IdsOf(m.rows) => made.raised
      /\ ~made.raised => Added(made, m, v, BuildList(m.rows, d, v), C)
  <2> HIDE DEF made
  <2>1. made = CreateRows(BuildList(m.rows, d, v), m, v)
    BY DEF made
  <2> QED
    BY <2>1, CreateRowsAdds
<1> HIDE DEF made
<1>3. d \in C => ~(Cardinality(last) > 1)
  <2> SUFFICES ASSUME d \in C PROVE ~(Cardinality(last) > 1)
    OBVIOUS
  <2>1. \A i, j \in last : i = j
    <3> SUFFICES ASSUME NEW i \in last, NEW j \in last, i # j PROVE FALSE
      OBVIOUS
    <3> DEFINE x == Max(Built(t, d, v))
    <3>1. Built(t, d, v) # {} /\ t[i].drink = x /\ t[j].drink = x
      OBVIOUS
    <3>2. x \in Built(t, d, v)
      <4>1. Built(t, d, v) \in SUBSET Nat /\ d \in Nat /\ \A y \in Built(t, d, v) : y <= d
        BY DrinkFacts DEF Built, ViewOf
      <4> QED
        BY <3>1, <4>1, MaxFacts
    <3>3. x \in DOMAIN drink /\ x < d /\ x \in Nat
      BY <3>2, DrinkFacts DEF Built
    <3> HIDE DEF x
    <3>4. x \in C
      BY <3>3 DEF Lower
    <3>5. i \in DOMAIN t /\ j \in DOMAIN t /\ i \in Nat /\ j \in Nat
      BY DEF Table
    <3>6. i < j \/ j < i
      BY <3>5
    <3>7. x < x
      BY <3>1, <3>4, <3>5, <3>6 DEF Good
    <3> QED
      BY <3>3, <3>7
  <2> HIDE DEF last
  <2>2. CASE last = {}
    BY <2>2, FS_EmptySet
  <2>3. CASE last # {}
    <3>1. PICK i \in last : last = {i}
      BY <2>1, <2>3
    <3>2. Cardinality(last) = 1
      BY <3>1, FS_Singleton
    <3> QED
      BY <3>2
  <2> QED
    BY <2>2, <2>3
<1> HIDE DEF last
<1>4. CASE Cardinality(last) > 1
  BY <1>1, <1>3, <1>4 DEF IsMade
<1>5. CASE ~(Cardinality(last) > 1)
  BY <1>1, <1>2, <1>5
<1> QED
  BY <1>4, <1>5

-----------------------------------------------------------------------------
(* What a job makes of the rows of all views *)

RowsOK ==
  /\ DOMAIN rows = View
  /\ \A v \in View : Table(rows[v]) /\ IdsOf(rows[v]) \subseteq DOMAIN drink

\* The view of drinks of one drinker, keg and session.
FullView(d) ==
  [user |-> drink[d].user, session |-> drink[d].session, keg |-> drink[d].keg]

\* A drink is in the view of its drinker, keg and session, whose rows are unique.
LEMMA FullViewFacts ==
  ASSUME DrinksOK, NEW d \in DOMAIN drink
  PROVE  FullView(d) \in View /\ InView(drink[d], FullView(d)) /\ Full(FullView(d))
BY StatisticsAssumption DEF DrinksOK, DrinkRow, FullView, View, InView, Full

\* A build adds the rows it should to every view of its drink, or raises.
LEMMA BuildForIdAdds ==
  ASSUME DrinksOK, RowsOK, NEW d \in DOMAIN drink, NEW C, Lower(C),
         NEW v \in View, Good(drink, v, rows[v], C), d \in C => d \notin IdsOf(rows[v])
  PROVE  LET n == BuildForId(d)[v]
             m == [rows |-> rows[v], raised |-> FALSE]
         IN  /\ n.raised \in BOOLEAN
             /\ ~InView(drink[d], v) => n = m
             /\ d \in C => ~n.raised
             /\ v = FullView(d) /\ d \in IdsOf(rows[v]) => n.raised
             /\ InView(drink[d], v) /\ ~n.raised =>
                  Added(n, m, v, BuildList(rows[v], d, v), C)
<1> DEFINE n == BuildForId(d)[v]
           m == [rows |-> rows[v], raised |-> FALSE]
<1>1. Begun(rows)[v] = m
  BY DEF Begun
<1>2. n = IF m.raised \/ ~InView(drink[d], v) THEN m ELSE BuildSingleView(m, d, v)
  BY <1>1 DEF BuildForId, BuildAllViews
<1>3. CASE ~InView(drink[d], v)
  BY <1>2, <1>3, FullViewFacts
<1>4. CASE InView(drink[d], v)
  <2>1. n = BuildSingleView(m, d, v)
    BY <1>2, <1>4
  <2>2. /\ d \in ViewOf(drink, v) /\ IsMade(m) /\ ~m.raised /\ m.rows = rows[v]
        /\ Table(m.rows) /\ IdsOf(m.rows) \subseteq DOMAIN drink
        /\ Good(drink, v, m.rows, C) /\ (d \in C => d \notin IdsOf(m.rows))
    BY <1>4 DEF ViewOf, IsMade, RowsOK
  <2> HIDE DEF n, m
  <2>3. /\ IsMade(n)
        /\ d \in C => ~n.raised
        /\ Full(v) /\ d \in IdsOf(m.rows) => n.raised
        /\ ~n.raised => Added(n, m, v, BuildList(m.rows, d, v), C)
    BY <2>1, <2>2, BuildSingleViewAdds
  <2>4. /\ n.raised \in BOOLEAN /\ ~(~InView(drink[d], v))
        /\ d \in C => ~n.raised
        /\ v = FullView(d) /\ d \in IdsOf(rows[v]) => n.raised
        /\ ~n.raised => Added(n, m, v, BuildList(rows[v], d, v), C)
    BY <1>4, <2>2, <2>3, FullViewFacts DEF IsMade
  <2> QED
    BY <2>4 DEF n, m
<1> QED
  BY <1>3, <1>4

-----------------------------------------------------------------------------
(* Rows that stay *)

\* Tables that agree on some drinks agree on their volume.
LEMMA SameVolumes ==
  ASSUME NEW D, NEW E, NEW ds, IsFiniteSet(ds), \A x \in ds : D[x] = E[x],
         NEW part \in SUBSET ds
  PROVE  VolumeOf(D, part) = VolumeOf(E, part)
<1>1. IsFiniteSet(part)
  BY FS_Subset
<1>2. \A x \in part : D[x].volume = E[x].volume
  OBVIOUS
<1> QED
  BY <1>1, <1>2, SameVolume

\* Tables that agree on some drinks agree on their statistics.
LEMMA SameStats ==
  ASSUME NEW D, NEW E, NEW ds, IsFiniteSet(ds), \A x \in ds : D[x] = E[x]
  PROVE  StatsOf(D, ds) = StatsOf(E, ds)
<1>1. {D[x].volume : x \in ds} = {E[x].volume : x \in ds}
  OBVIOUS
<1>2. \A m : {x \in ds : D[x].volume = m} = {x \in ds : E[x].volume = m}
  OBVIOUS
<1>3. (\E x \in ds : D[x].user = Guest) = (\E x \in ds : E[x].user = Guest)
  OBVIOUS
<1>4. VolumeOf(D, ds) = VolumeOf(E, ds)
  BY SameVolumes
<1>5. /\ {D[x].user : x \in ds} = {E[x].user : x \in ds}
      /\ {D[x].session : x \in ds} = {E[x].session : x \in ds}
  OBVIOUS
<1>6. /\ \A u : {x \in ds : D[x].user = u} = {x \in ds : E[x].user = u}
      /\ \A s : {x \in ds : D[x].session = s} = {x \in ds : E[x].session = s}
  OBVIOUS
<1>7. /\ \A u : VolumeOf(D, {x \in ds : E[x].user = u}) = VolumeOf(E, {x \in ds : E[x].user = u})
      /\ \A s : VolumeOf(D, {x \in ds : E[x].session = s})
                  = VolumeOf(E, {x \in ds : E[x].session = s})
  BY SameVolumes
<1>8. /\ \A u : VolumeOf(D, {x \in ds : D[x].user = u}) = VolumeOf(E, {x \in ds : E[x].user = u})
      /\ \A s : VolumeOf(D, {x \in ds : D[x].session = s})
                  = VolumeOf(E, {x \in ds : E[x].session = s})
  BY <1>6, <1>7
<1>9. [u \in {D[x].user : x \in ds} |-> VolumeOf(D, {x \in ds : D[x].user = u})]
        = [u \in {E[x].user : x \in ds} |-> VolumeOf(E, {x \in ds : E[x].user = u})]
  BY <1>5, <1>8
<1>10. [s \in {D[x].session : x \in ds} |-> VolumeOf(D, {x \in ds : D[x].session = s})]
         = [s \in {E[x].session : x \in ds} |-> VolumeOf(E, {x \in ds : E[x].session = s})]
  BY <1>5, <1>8
<1>11. Min({x \in ds : D[x].volume = Max({D[y].volume : y \in ds})})
         = Min({x \in ds : E[x].volume = Max({E[y].volume : y \in ds})})
  BY <1>1, <1>2
<1> QED
  BY <1>1, <1>3, <1>4, <1>9, <1>10, <1>11, Zenon DEF StatsOf

\* Nothing up to drink y has been changed from D to E.
SameUpTo(D, E, y) ==
  \A x \in Nat : x <= y => /\ x \in DOMAIN D <=> x \in DOMAIN E
                           /\ x \in DOMAIN D => D[x] = E[x]

\* A row stays right when nothing up to its drink has changed.
LEMMA RowStaysRight ==
  ASSUME NEW D, NEW E, DOMAIN D \in SUBSET Nat, DOMAIN E \in SUBSET Nat,
         IsFiniteSet(DOMAIN D), NEW v, NEW r, RowIsRight(D, v, r),
         SameUpTo(D, E, r.drink)
  PROVE  RowIsRight(E, v, r)
<1> DEFINE y == r.drink
<1>1. y \in ViewOf(D, v) /\ y \in Nat
  BY DEF RowIsRight, ViewOf
<1>2. \A x \in Nat : x <= y => (x \in ViewOf(D, v) <=> x \in ViewOf(E, v))
  BY DEF SameUpTo, ViewOf
<1>3. y \in ViewOf(E, v)
  BY <1>1, <1>2
<1>4. ViewOf(D, v) \in SUBSET Nat /\ ViewOf(E, v) \in SUBSET Nat
  BY DEF ViewOf
<1>5. UpTo(D, v, y) = UpTo(E, v, y)
  BY <1>2, <1>4 DEF UpTo
<1>6. \A x \in UpTo(D, v, y) : D[x] = E[x]
  BY <1>4 DEF UpTo, SameUpTo, ViewOf
<1>7. IsFiniteSet(UpTo(D, v, y))
  <2>1. UpTo(D, v, y) \in SUBSET DOMAIN D
    BY DEF UpTo, ViewOf
  <2> QED
    BY <2>1, FS_Subset
<1>8. StatsOf(D, UpTo(D, v, y)) = StatsOf(E, UpTo(E, v, y))
  BY <1>5, <1>6, <1>7, SameStats
<1>9. (\A x \in ViewOf(D, v) : y <= x) <=> (\A x \in ViewOf(E, v) : y <= x)
  <2>1. \A x \in Nat : ~(y <= x) => x <= y
    BY <1>1
  <2> QED
    BY <1>1, <1>2, <1>4, <2>1
<1>10. {D[x].session : x \in UpTo(D, v, y)} = {E[x].session : x \in UpTo(E, v, y)}
  BY <1>5, <1>6
<1> QED
  BY <1>3, <1>8, <1>9, <1>10 DEF RowIsRight

\* What is left of rows that are right as far as C goes is right as far as K goes, as
\* long as the rows that are left for drinks in K have been right, and all before them
\* is left as it was.
\* The rows of t that are for drinks in ds.
KeptOf(t, ds) == [i \in {j \in DOMAIN t : t[j].drink \in ds} |-> t[i]]

\* What is left of rows after a change of the drinks is still good, as far as it is for
\* drinks before the change.
LEMMA GoodStays ==
  ASSUME NEW D, NEW E, DOMAIN D \in SUBSET Nat, DOMAIN E \in SUBSET Nat,
         IsFiniteSet(DOMAIN D), NEW v, NEW t, NEW C, Good(D, v, t, C), NEW ds, NEW K,
         \A y \in IdsOf(t) \cap ds \cap K :
            y \in C /\ SameUpTo(D, E, y) /\ \A x \in DOMAIN D : x < y => x \in ds,
         NEW u, u = KeptOf(t, ds)
  PROVE  Good(E, v, u, K)
<1>1. \A i \in DOMAIN u : i \in DOMAIN t /\ u[i] = t[i] /\ t[i].drink \in ds
  BY DEF KeptOf
<1>2. \A i \in DOMAIN t : t[i].drink \in ds => i \in DOMAIN u
  BY DEF KeptOf
<1>3. ASSUME NEW i \in DOMAIN u, u[i].drink \in K
      PROVE  /\ u[i].drink \in C /\ SameUpTo(D, E, u[i].drink)
             /\ \A x \in DOMAIN D : x < u[i].drink => x \in ds
  <2>1. u[i].drink \in IdsOf(t)
    BY <1>1 DEF IdsOf
  <2> QED
    BY <1>1, <1>3, <2>1
<1>4. ASSUME NEW i \in DOMAIN u, u[i].drink \in K PROVE RowIsRight(E, v, u[i])
  <2>1. RowIsRight(D, v, u[i])
    BY <1>1, <1>3, <1>4 DEF Good
  <2> QED
    BY <1>3, <1>4, <2>1, RowStaysRight
<1>5. ASSUME NEW i \in DOMAIN u, NEW j \in DOMAIN u, i < j, u[i].drink \in K, u[j].drink \in K
      PROVE  u[i].drink < u[j].drink
  BY <1>1, <1>3, <1>5 DEF Good
<1>6. ASSUME NEW i \in DOMAIN u, NEW x \in ViewOf(E, v), u[i].drink \in K, x < u[i].drink
      PROVE  x \in IdsOf(u)
  <2>1. u[i].drink \in Nat
    BY <1>4, <1>6 DEF RowIsRight, ViewOf
  <2>2. x \in Nat /\ x <= u[i].drink
    BY <1>6, <2>1 DEF ViewOf
  <2>3. x \in ViewOf(D, v)
    BY <1>3, <1>6, <2>2 DEF SameUpTo, ViewOf
  <2>4. x \in IdsOf(t) /\ x \in ds
    <3>1. x \in DOMAIN D
      BY <2>3 DEF ViewOf
    <3>2. x \in IdsOf(t)
      BY <1>1, <1>3, <1>6, <2>3 DEF Good
    <3> QED
      BY <1>3, <1>6, <3>1, <3>2
  <2>5. PICK j \in DOMAIN t : t[j].drink = x
    BY <2>4 DEF IdsOf
  <2> QED
    BY <1>1, <1>2, <2>4, <2>5 DEF IdsOf
<1> QED
  BY <1>4, <1>5, <1>6 DEF Good

\* What is left of the rows of a view.
LEMMA KeepFacts ==
  ASSUME NEW v \in View, Table(rows[v]), NEW ds
  PROVE  /\ Keep(ds)[v] = [i \in {j \in DOMAIN rows[v] : rows[v][j].drink \in ds} |-> rows[v][i]]
         /\ Table(Keep(ds)[v])
         /\ IdsOf(Keep(ds)[v]) = IdsOf(rows[v]) \cap ds
<1> DEFINE t == rows[v]
           u == [i \in {j \in DOMAIN t : t[j].drink \in ds} |-> t[i]]
<1>1. Keep(ds)[v] = u
  BY DEF Keep
<1>2. DOMAIN u \in SUBSET DOMAIN t
  OBVIOUS
<1>3. IdsOf(u) = IdsOf(t) \cap ds
  BY DEF IdsOf
<1>4. Table(t)
  OBVIOUS
<1>5. Table(u)
  <2> HIDE DEF t, u
  <2> QED
    BY <1>2, <1>4 DEF Table
<1> QED
  BY <1>1, <1>3, <1>5

-----------------------------------------------------------------------------
(* A rebuild *)

\* n is what has been made for view v by a rebuild from drink d that has got through the
\* drinks in U, when what it started from was right as far as C goes.
Rebuilt(n, v, d, U, C) ==
  /\ IsMade(n)
  /\ DOMAIN drink \subseteq C => ~n.raised
  /\ ~n.raised =>
       /\ Table(n.rows) /\ IdsOf(n.rows) \subseteq DOMAIN drink /\ Good(drink, v, n.rows, C)
       /\ \A y \in IdsOf(rows[v]) : y < d => y \in IdsOf(n.rows)
       /\ \A y \in U : y \in ViewOf(drink, v) => y \in IdsOf(n.rows)
       /\ \A y \in IdsOf(n.rows) : y < d \/ \E u \in U : y <= u

\* The next drink is later than all that have a row so far: it gets its first.
LEMMA RebuildStep ==
  ASSUME DrinksOK, NEW C, Lower(C), NEW v \in View, NEW d \in Nat,
         NEW W \in SUBSET DOMAIN drink, NEW m, Rebuilt(m, v, d, W, C),
         NEW x \in DOMAIN drink, d <= x, \A u \in W : u < x,
         NEW n, n = IF m.raised \/ ~InView(drink[x], v) THEN m ELSE BuildSingleView(m, x, v)
  PROVE  Rebuilt(n, v, d, W \cup {x}, C)
<1>1. x \in Nat /\ DOMAIN drink \in SUBSET Nat
  BY DrinkFacts
<1>2. CASE m.raised
  BY <1>2 DEF Rebuilt
<1>3. CASE ~m.raised /\ ~InView(drink[x], v)
  <2>1. n = m /\ x \notin ViewOf(drink, v)
    BY <1>3 DEF ViewOf
  <2> QED
    BY <1>3, <2>1 DEF Rebuilt
<1>4. CASE ~m.raised /\ InView(drink[x], v)
  <2>1. /\ x \in ViewOf(drink, v) /\ IsMade(m) /\ n = BuildSingleView(m, x, v)
        /\ Table(m.rows) /\ IdsOf(m.rows) \subseteq DOMAIN drink
        /\ Good(drink, v, m.rows, C)
    BY <1>4 DEF Rebuilt, ViewOf
  <2>2. x \notin IdsOf(m.rows)
    <3>1. \A y \in IdsOf(m.rows) : y < d \/ \E u \in W : y <= u
      BY <1>4 DEF Rebuilt
    <3>2. \A u \in W : u \in Nat /\ u < x
      BY <1>1
    <3> QED
      BY <1>1, <3>1, <3>2
  <2>3. /\ IsMade(n)
        /\ x \in C => ~n.raised
        /\ ~n.raised => Added(n, m, v, BuildList(m.rows, x, v), C)
    BY <1>4, <2>1, <2>2, BuildSingleViewAdds
  <2>4. /\ x \in BuildList(m.rows, x, v)
        /\ \A y \in BuildList(m.rows, x, v) : y \in DOMAIN drink /\ y <= x
    <3>1. \A y \in BuildList(m.rows, x, v) : y = x \/ (y \in ViewOf(drink, v) /\ y < x)
      BY DrinksInView DEF BuildList
    <3>2. x \in BuildList(m.rows, x, v)
      BY DEF BuildList
    <3>3. ViewOf(drink, v) \in SUBSET DOMAIN drink
      BY DEF ViewOf
    <3> QED
      BY <1>1, <3>1, <3>2, <3>3
  <2> DEFINE L == BuildList(m.rows, x, v)
  <2> HIDE DEF L
  <2>5. x \in L /\ \A y \in L : y \in DOMAIN drink /\ y <= x
    BY <2>4 DEF L
  <2>6. ASSUME ~n.raised
        PROVE  /\ Table(n.rows) /\ IdsOf(n.rows) \subseteq DOMAIN drink
               /\ Good(drink, v, n.rows, C)
               /\ IdsOf(n.rows) = IdsOf(m.rows) \cup L
    <3>1. Added(n, m, v, L, C)
      BY <2>3, <2>6 DEF L
    <3> QED
      BY <2>1, <2>5, <3>1 DEF Added
  <2>7. ASSUME ~n.raised
        PROVE  /\ \A y \in IdsOf(rows[v]) : y < d => y \in IdsOf(n.rows)
               /\ \A y \in W \cup {x} : y \in ViewOf(drink, v) => y \in IdsOf(n.rows)
               /\ \A y \in IdsOf(n.rows) : y < d \/ \E u \in W \cup {x} : y <= u
    BY <1>4, <2>5, <2>6, <2>7 DEF Rebuilt
  <2>8. DOMAIN drink \subseteq C => ~n.raised
    BY <2>3
  <2> QED
    BY <2>3, <2>6, <2>7, <2>8 DEF Rebuilt
<1> QED
  BY <1>2, <1>3, <1>4

\* A rebuild raises only if rows it has kept are wrong; else all drinks from d on have
\* their rows.
LEMMA RebuildMakes ==
  ASSUME DrinksOK, RowsOK, NEW d \in Nat, NEW C, Lower(C),
         \A v \in View : Good(drink, v, Invalidate(d)[v], C)
  PROVE  \A v \in View : Rebuilt(RebuildFromId(d)[v], v, d, {x \in DOMAIN drink : x >= d}, C)
<1> DEFINE base == Begun(Invalidate(d))
           S == {x \in DOMAIN drink : x >= d}
<1>1. DOMAIN drink \in SUBSET Nat /\ lastDrink \in Nat /\ DOMAIN drink \in SUBSET (1 .. lastDrink)
  BY DrinkFacts DEF DrinksOK
<1>2. S \in SUBSET (0 .. lastDrink) /\ S \in SUBSET DOMAIN drink
  BY <1>1
<1>3. RebuildFromId(d) = FoldAscending(BuildAllViews, base, S)
  BY DEF RebuildFromId
<1>4. \A v \in View : Rebuilt(base[v], v, d, {}, C)
  <2> SUFFICES ASSUME NEW v \in View PROVE Rebuilt(base[v], v, d, {}, C)
    OBVIOUS
  <2> DEFINE n == base[v]
             kept == Invalidate(d)[v]
  <2>1. n = [rows |-> kept, raised |-> FALSE]
    BY DEF Begun
  <2>2. Table(kept) /\ IdsOf(kept) = IdsOf(rows[v]) \cap (1 .. d - 1)
    BY KeepFacts DEF RowsOK, Invalidate
  <2>3. IdsOf(rows[v]) \subseteq DOMAIN drink
    BY DEF RowsOK
  <2>4. Good(drink, v, kept, C)
    OBVIOUS
  <2> HIDE DEF kept, n
  <2>5. \A y \in IdsOf(rows[v]) : y < d => y \in IdsOf(kept)
    BY <1>1, <2>2, <2>3
  <2>6. \A y \in IdsOf(kept) : y < d /\ y \in DOMAIN drink
    BY <1>1, <2>2, <2>3
  <2>7. Rebuilt(n, v, d, {}, C)
    BY <2>1, <2>2, <2>4, <2>5, <2>6 DEF Rebuilt, IsMade
  <2> QED
    BY <2>7 DEF n
<1> HIDE DEF base, S
<1>5. PICK f : AllBuilt(f, base, S) /\ FoldAscending(BuildAllViews, base, S) = f[S]
  BY <1>1, <1>2, AllBuiltFacts
<1>6. /\ f[{}] = base
      /\ \A s \in SUBSET S : s # {} => f[s] = BuildAllViews(Max(s), f[s \ {Max(s)}])
  BY <1>5 DEF AllBuilt
<1> DEFINE Right(U) == \A v \in View : Rebuilt(f[U][v], v, d, U, C)
           B == {U \in SUBSET S : ~Right(U)}
<1>7. B = {}
  <2> SUFFICES ASSUME B # {} PROVE FALSE
    OBVIOUS
  <2>1. PICK U \in B : \A W \in SUBSET U : W # U => W \notin B
    <3>1. IsFiniteSet(S)
      BY <1>2, DrinkFacts, FS_Subset
    <3>2. B \in SUBSET (SUBSET S)
      OBVIOUS
    <3> HIDE DEF B
    <3> QED
      BY <3>1, <3>2, LeastSubset
  <2>2. U \in SUBSET S /\ ~Right(U)
    OBVIOUS
  <2>3. U # {}
    <3>1. Right({})
      BY <1>4, <1>6
    <3> QED
      BY <2>2, <3>1
  <2> DEFINE x == Max(U)
             W == U \ {x}
  <2>4. x \in U /\ \A y \in U : y <= x
    BY <1>1, <1>2, <2>2, <2>3, MaxOfPart
  <2>5. x \in DOMAIN drink /\ d <= x /\ x \in Nat
    BY <1>1, <1>2, <2>2, <2>4 DEF S
  <2>6. Right(W)
    BY <2>1, <2>2, <2>4
  <2>7. f[U] = BuildAllViews(x, f[W])
    BY <1>6, <2>2, <2>3
  <2>8. U = W \cup {x} /\ W \in SUBSET DOMAIN drink /\ \A u \in W : u < x
    <3>1. U \in SUBSET Nat
      BY <1>1, <1>2, <2>2
    <3>2. \A u \in W : u # x /\ u <= x /\ u \in Nat
      BY <2>4, <3>1
    <3>3. U = W \cup {x} /\ W \in SUBSET DOMAIN drink
      BY <1>2, <2>2, <2>4
    <3> HIDE DEF x, W
    <3> QED
      BY <2>5, <3>2, <3>3
  <2> HIDE DEF x, W
  <2>9. ASSUME NEW v \in View PROVE Rebuilt(f[U][v], v, d, U, C)
    <3> DEFINE m == f[W][v]
               n == f[U][v]
    <3>1. n = IF m.raised \/ ~InView(drink[x], v) THEN m ELSE BuildSingleView(m, x, v)
      BY <2>7 DEF BuildAllViews
    <3>2. Rebuilt(m, v, d, W, C)
      BY <2>6
    <3> HIDE DEF m, n
    <3>3. Rebuilt(n, v, d, W \cup {x}, C)
      BY <2>5, <2>8, <3>1, <3>2, RebuildStep
    <3> QED
      BY <2>8, <3>3 DEF n
  <2> QED
    BY <2>2, <2>9
<1>8. Right(S)
  BY <1>7
<1> QED
  BY <1>3, <1>5, <1>8 DEF S

-----------------------------------------------------------------------------
(* The invariant *)

Jobs == [drink : DrinkIds, rebuild : BOOLEAN, by : Requests \cup {None}]

IsTable(f) == f = [p \in Requests |-> f[p]]

Types ==
  /\ lastDrink \in 0 .. MaxDrinks /\ changes \in 0 .. MaxChanges
  /\ DrinksOK /\ RowsOK
  /\ queue \in Seq(Jobs)
  /\ \A i \in DOMAIN queue : queue[i].drink <= lastDrink
  /\ amiss \subseteq {"missed build", "missed rebuild", "disorder"}
  /\ IsTable(open)

\* The drinks that transaction t deletes or saves.
Touched(t) == t.gone \cup DOMAIN t.put

\* Beside the drinks D, of ids up to n, transaction t is to save the new drink d.
IsPour(D, n, t, d) ==
  /\ t.gone = {} /\ DOMAIN t.put = {d}
  /\ d \in 1 .. n /\ d \notin DOMAIN D
  /\ t.put[d] \in DrinkRow

\* Transaction t is to change some of the drinks D, whose sessions it has written.
IsChange(D, t) ==
  /\ t.queued
  /\ Touched(t) \subseteq DOMAIN D
  /\ \A d \in Touched(t) : D[d].session \in t.locks
  /\ \A d \in DOMAIN t.put : t.put[d] \in DrinkRow

IsTransaction(D, n, t) ==
  /\ t = [locks |-> t.locks, gone |-> t.gone, put |-> t.put, queued |-> t.queued]
  /\ t.queued \in BOOLEAN
  /\ IsChange(D, t) \/ \E d \in 1 .. n : IsPour(D, n, t, d)

Shape ==
  \A p \in Requests : open[p] # None => IsTransaction(drink, lastDrink, open[p])

\* Two transactions have nothing in common.
Apart ==
  \A p, q \in Requests : p # q /\ open[p] # None /\ open[q] # None =>
    /\ open[p].locks \cap open[q].locks = {}
    /\ NewDrink(p) \cap NewDrink(q) = {}

\* Unless a pour has overtaken another, the job of a drink comes after all jobs of
\* earlier drinks, and a drink still to be saved is later than all that are.
Order ==
  "disorder" \notin amiss =>
    /\ \A i, j \in DOMAIN queue :
         i < j /\ ~queue[j].rebuild => queue[i].drink < queue[j].drink
    /\ \A p \in Requests : \A y \in NewDrink(p), x \in DOMAIN drink : x < y
    /\ \A p \in Requests : \A y \in NewDrink(p), i \in DOMAIN queue :
         ~open[p].queued => queue[i].drink < y

\* The drinks before all that wait for a rebuild.
Clean == {x \in DrinkIds : \A i \in DOMAIN queue : queue[i].rebuild => x < queue[i].drink}

\* A change still to be committed has its rebuild waiting, from a drink that is not later
\* than those it changes.
ChangesHaveJobs ==
  \A p \in Requests : open[p] # None /\ NewDrink(p) = {} =>
    \E i \in DOMAIN queue :
      /\ queue[i].by = p /\ queue[i].rebuild
      /\ \A d \in Touched(open[p]) : queue[i].drink <= d

RowsAreGood == \A v \in View : Good(drink, v, rows[v], Clean)

\* A drink whose build waits has rows in all its views, or in none.
AllOrNone ==
  \A i \in DOMAIN queue :
    LET y == queue[i].drink
    IN  ~queue[i].rebuild /\ y \in Clean =>
          \A v, w \in View : y \in ViewOf(drink, v) /\ y \in ViewOf(drink, w)
                               /\ y \in IdsOf(rows[v]) => y \in IdsOf(rows[w])

Rebuilds == amiss \subseteq {"missed build"} => ChangesHaveJobs /\ RowsAreGood /\ AllOrNone

\* A pour still to be committed has its build waiting, once it is queued.
PoursHaveJobs ==
  \A p \in Requests : \A y \in NewDrink(p) :
    open[p].queued => \E i \in DOMAIN queue : /\ queue[i].by = p /\ ~queue[i].rebuild
                                              /\ queue[i].drink = y

\* A row that is missing will be made.
MissingHaveJobs ==
  \A v \in View : \A x \in ViewOf(drink, v) : x \in Clean /\ x \notin IdsOf(rows[v]) =>
    \E i \in DOMAIN queue : ~queue[i].rebuild /\ queue[i].drink = x

Builds == amiss = {} => PoursHaveJobs /\ MissingHaveJobs

StatisticsInv == Types /\ Shape /\ Apart /\ Order /\ Rebuilds /\ Builds

-----------------------------------------------------------------------------
(* The queue *)

\* The queue without its first job,
LEMMA TailFacts ==
  ASSUME queue \in Seq(Jobs), queue # << >>
  PROVE  /\ 1 \in DOMAIN queue /\ Head(queue) = queue[1] /\ queue[1] \in Jobs
         /\ Tail(queue) \in Seq(Jobs)
         /\ \A i \in DOMAIN Tail(queue) : /\ i + 1 \in DOMAIN queue /\ i \in Nat
                                          /\ Tail(queue)[i] = queue[i + 1]
         /\ \A i \in DOMAIN queue : i # 1 => /\ i - 1 \in DOMAIN Tail(queue) /\ i \in Nat /\ 1 < i
                                             /\ Tail(queue)[i - 1] = queue[i]
<1>1. /\ Len(queue) \in Nat /\ DOMAIN queue = 1 .. Len(queue) /\ Len(queue) # 0
      /\ \A i \in DOMAIN queue : queue[i] \in Jobs
  OBVIOUS
<1>2. /\ Tail(queue) \in Seq(Jobs) /\ DOMAIN Tail(queue) = 1 .. Len(queue) - 1
      /\ \A i \in 1 .. Len(queue) - 1 : Tail(queue)[i] = queue[i + 1]
  OBVIOUS
<1>3. Head(queue) = queue[1]
  OBVIOUS
<1> QED
  BY <1>1, <1>2, <1>3

\* with one more,
LEMMA AppendFacts ==
  ASSUME queue \in Seq(Jobs), NEW job \in Jobs
  PROVE  /\ Append(queue, job) \in Seq(Jobs)
         /\ Len(queue) + 1 \in DOMAIN Append(queue, job) /\ Len(queue) + 1 \in Nat
         /\ Append(queue, job)[Len(queue) + 1] = job
         /\ \A i \in DOMAIN queue : /\ i \in DOMAIN Append(queue, job) /\ i \in Nat
                                    /\ i < Len(queue) + 1
                                    /\ Append(queue, job)[i] = queue[i]
         /\ \A i \in DOMAIN Append(queue, job) : i \in DOMAIN queue \/ i = Len(queue) + 1
<1>1. Len(queue) \in Nat /\ DOMAIN queue = 1 .. Len(queue)
  OBVIOUS
<1>2. /\ Append(queue, job) \in Seq(Jobs)
      /\ DOMAIN Append(queue, job) = 1 .. Len(queue) + 1
      /\ Append(queue, job)[Len(queue) + 1] = job
      /\ \A i \in 1 .. Len(queue) : Append(queue, job)[i] = queue[i]
  OBVIOUS
<1> QED
  BY <1>1, <1>2

\* When request p is done, the jobs are as before but that none is p's.
LEMMA CloseFacts ==
  ASSUME queue \in Seq(Jobs), NEW p \in Requests, Close(p)
  PROVE  /\ queue' \in Seq(Jobs) /\ DOMAIN queue' = DOMAIN queue
         /\ \A i \in DOMAIN queue : /\ queue'[i].drink = queue[i].drink
                                    /\ queue'[i].rebuild = queue[i].rebuild
                                    /\ queue[i].by # p => queue'[i].by = queue[i].by
<1>1. /\ Len(queue) \in Nat /\ DOMAIN queue = 1 .. Len(queue)
      /\ \A i \in DOMAIN queue : queue[i] \in Jobs
  OBVIOUS
<1>2. queue' = [i \in DOMAIN queue |-> IF queue[i].by = p THEN [queue[i] EXCEPT !.by = None]
                                       ELSE queue[i]]
  BY DEF Close
<1>3. \A i \in DOMAIN queue : /\ queue'[i] \in Jobs
                              /\ queue'[i].drink = queue[i].drink
                              /\ queue'[i].rebuild = queue[i].rebuild
                              /\ queue[i].by # p => queue'[i].by = queue[i].by
  BY <1>1, <1>2 DEF Jobs
<1>4. queue' \in Seq(Jobs)
  <2>1. queue' \in [1 .. Len(queue) -> Jobs]
    BY <1>1, <1>2, <1>3
  <2> QED
    BY <1>1, <2>1
<1> QED
  BY <1>2, <1>3, <1>4

\* The types of the variables, one by one.
LEMMA TypesFacts ==
  ASSUME Types
  PROVE  /\ Lower(Clean) /\ Clean \in SUBSET Nat
         /\ DOMAIN drink \in SUBSET DrinkIds /\ DrinkIds \in SUBSET Nat
         /\ \A i \in DOMAIN queue : /\ queue[i] \in Jobs /\ queue[i].drink \in Nat
                                    /\ queue[i].drink <= lastDrink
         /\ lastDrink \in Nat /\ DOMAIN drink \subseteq 1 .. lastDrink
         /\ DrinksOK /\ RowsOK /\ IsTable(open)
<1>1. lastDrink \in Nat /\ lastDrink <= MaxDrinks /\ MaxDrinks \in Nat
  <2>1. MaxDrinks \in Nat
    BY StatisticsAssumption
  <2>2. lastDrink \in 0 .. MaxDrinks
    BY DEF Types
  <2> QED
    BY <2>1, <2>2
<1>2. DOMAIN drink \in SUBSET DrinkIds
  <2>1. DOMAIN drink \subseteq 1 .. lastDrink
    BY DEF Types, DrinksOK
  <2> QED
    BY <1>1, <2>1 DEF DrinkIds
<1>3. \A i \in DOMAIN queue : queue[i] \in Jobs
  <2>1. queue \in Seq(Jobs)
    BY DEF Types
  <2> QED
    BY <2>1
<1>4. DrinkIds \in SUBSET Nat
  BY <1>1 DEF DrinkIds
<1>5. \A i \in DOMAIN queue : queue[i].drink \in Nat
  BY <1>3, <1>4 DEF Jobs
<1>6. Lower(Clean)
  <2> SUFFICES ASSUME NEW y \in Clean, NEW z \in DOMAIN drink, z < y PROVE z \in Clean
    BY DEF Lower
  <2>1. y \in Nat /\ z \in Nat /\ z \in DrinkIds
    BY <1>2, <1>4 DEF Clean
  <2> QED
    BY <1>2, <1>5, <2>1 DEF Clean
<1>7. /\ \A i \in DOMAIN queue : queue[i].drink <= lastDrink
      /\ DrinksOK /\ RowsOK /\ IsTable(open)
  BY Zenon DEF Types
<1>8. DOMAIN drink \subseteq 1 .. lastDrink
  BY <1>7 DEF DrinksOK
<1>9. Clean \in SUBSET Nat
  BY <1>4 DEF Clean
<1> QED
  BY <1>1, <1>2, <1>3, <1>4, <1>5, <1>6, <1>7, <1>8, <1>9

-----------------------------------------------------------------------------
(* Transactions *)

\* A transaction is to save a new drink, or to change drinks there are.
LEMMA TransactionFacts ==
  ASSUME Shape, NEW p \in Requests, open[p] # None
  PROVE  \/ IsChange(drink, open[p]) /\ NewDrink(p) = {}
         \/ \E d \in 1 .. lastDrink : IsPour(drink, lastDrink, open[p], d) /\ NewDrink(p) = {d}
<1>1. CASE IsChange(drink, open[p])
  BY <1>1 DEF IsChange, Touched, NewDrink
<1>2. ASSUME NEW d \in 1 .. lastDrink, IsPour(drink, lastDrink, open[p], d) PROVE NewDrink(p) = {d}
  BY <1>2 DEF IsPour, NewDrink
<1> QED
  BY <1>1, <1>2 DEF Shape, IsTransaction

\* Request p begins transaction t.
LEMMA OpenFacts ==
  ASSUME IsTable(open), NEW p \in Requests, NEW locks, NEW gone, NEW put, NEW queued,
         Open(p, locks, gone, put, queued)
  PROVE  /\ open[p] = None
         /\ open'[p] = [locks |-> locks, gone |-> gone, put |-> put, queued |-> queued]
         /\ \A q \in Requests : q # p => open'[q] = open[q]
         /\ \A q \in Requests : q # p /\ open[q] # None => locks \cap open[q].locks = {}
         /\ IsTable(open')
BY DEF Open, IsTable

\* The requests that have nothing to do with a step.
LEMMA OthersStay ==
  ASSUME NEW q \in Requests, open'[q] = open[q], drink' = drink
  PROVE  NewDrink(q)' = NewDrink(q)
BY DEF NewDrink

\* Rows that are good as far as C goes are so for less.
LEMMA GoodForLess ==
  ASSUME NEW D, NEW v, NEW t, NEW C, Good(D, v, t, C), NEW K \in SUBSET C
  PROVE  Good(D, v, t, K)
BY DEF Good

\* Pour: a new transaction, of the latest drink.
LEMMA PourKeepsInv ==
  ASSUME StatisticsInv, NEW p \in Requests, Pour(p)
  PROVE  StatisticsInv'
<1> DEFINE d == lastDrink + 1
<1>1. PICK row \in Pours : Open(p, {row.session}, {}, [x \in {d} |-> row], FALSE)
  BY DEF Pour
<1> DEFINE t == [locks |-> {row.session}, gone |-> {}, put |-> [x \in {d} |-> row],
                 queued |-> FALSE]
<1>2. Types /\ Shape /\ Apart /\ Order /\ Rebuilds /\ Builds
  BY DEF StatisticsInv
<1>3. /\ d \in DrinkIds /\ lastDrink' = d /\ drink' = drink /\ changes' = changes
      /\ queue' = queue /\ rows' = rows /\ amiss' = amiss
  BY DEF Pour
<1>4. /\ lastDrink \in Nat /\ DOMAIN drink \subseteq 1 .. lastDrink /\ IsTable(open)
  BY <1>2 DEF Types, DrinksOK
<1>5. d \in Nat /\ lastDrink < d /\ d \notin DOMAIN drink /\ 1 .. lastDrink \subseteq 1 .. lastDrink'
  BY <1>3, <1>4
<1>6. /\ open[p] = None /\ open'[p] = t
      /\ \A q \in Requests : q # p => open'[q] = open[q]
      /\ \A q \in Requests : q # p /\ open[q] # None => {row.session} \cap open[q].locks = {}
      /\ IsTable(open')
  BY <1>1, <1>4, OpenFacts
<1>7. row \in DrinkRow
  BY StatisticsAssumption DEF DrinkRow
<1> HIDE DEF d
<1>8. /\ t.locks = {row.session} /\ t.gone = {} /\ DOMAIN t.put = {d} /\ t.put[d] = row
      /\ t.queued = FALSE
      /\ t = [locks |-> t.locks, gone |-> t.gone, put |-> t.put, queued |-> t.queued]
  OBVIOUS
<1> HIDE DEF t
<1>9. /\ \A q \in Requests : q # p => NewDrink(q)' = NewDrink(q)
      /\ NewDrink(p)' \subseteq {d}
      /\ open'[p] # None => NewDrink(p)' = {d}
  <2>1. \A q \in Requests : q # p => NewDrink(q)' = NewDrink(q)
    BY <1>3, <1>6, OthersStay
  <2>2. NewDrink(p)' = IF open'[p] = None THEN {} ELSE DOMAIN open'[p].put \ DOMAIN drink'
    BY DEF NewDrink
  <2> QED
    BY <1>3, <1>5, <1>6, <1>8, <2>1, <2>2
<1>10. Types'
  <2>1. /\ lastDrink \in 0 .. MaxDrinks /\ changes \in 0 .. MaxChanges
        /\ DrinksOK /\ RowsOK
        /\ queue \in Seq(Jobs)
        /\ \A i \in DOMAIN queue : queue[i].drink <= lastDrink
        /\ amiss \subseteq {"missed build", "missed rebuild", "disorder"}
    BY <1>2 DEF Types
  <2>2. lastDrink' \in 0 .. MaxDrinks
    BY <1>3, StatisticsAssumption DEF DrinkIds
  <2>3. DrinksOK'
    BY <1>3, <1>5, <2>1 DEF DrinksOK
  <2>4. RowsOK'
    BY <1>3, <2>1 DEF RowsOK
  <2>5. \A i \in DOMAIN queue' : queue'[i].drink <= lastDrink'
    <3>1. \A i \in DOMAIN queue : queue[i].drink \in Nat /\ queue[i].drink <= lastDrink
      BY <1>2, TypesFacts
    <3> QED
      BY <1>3, <1>4, <1>5, <3>1
  <2> QED
    BY <1>3, <1>6, <2>1, <2>2, <2>3, <2>4, <2>5 DEF Types
<1>11. Shape'
  <2> SUFFICES ASSUME NEW q \in Requests, open'[q] # None
               PROVE  IsTransaction(drink', lastDrink', open'[q])
    BY DEF Shape
  <2>1. CASE q = p
    <3>1. IsPour(drink', lastDrink', t, d)
      BY <1>3, <1>4, <1>5, <1>7, <1>8 DEF IsPour
    <3>2. d \in 1 .. lastDrink'
      BY <1>3, <1>4, <1>5
    <3> QED
      BY <1>6, <1>8, <2>1, <3>1, <3>2 DEF IsTransaction
  <2>2. CASE q # p
    <3>1. IsTransaction(drink, lastDrink, open[q])
      BY <1>2, <1>6, <2>2 DEF Shape
    <3>2. \A e \in 1 .. lastDrink : e \in 1 .. lastDrink' /\ (IsPour(drink, lastDrink, open[q], e)
             => IsPour(drink, lastDrink', open[q], e))
      BY <1>5 DEF IsPour
    <3> QED
      BY <1>3, <1>6, <2>2, <3>1, <3>2 DEF IsTransaction
  <2> QED
    BY <2>1, <2>2
<1>12. Apart'
  <2> SUFFICES ASSUME NEW q \in Requests, NEW r \in Requests, q # r,
                      open'[q] # None, open'[r] # None
               PROVE  /\ open'[q].locks \cap open'[r].locks = {}
                      /\ NewDrink(q)' \cap NewDrink(r)' = {}
    BY DEF Apart
  <2>1. \A u \in Requests : u # p /\ open[u] # None => d \notin NewDrink(u)
    <3> SUFFICES ASSUME NEW u \in Requests, u # p, open[u] # None PROVE d \notin NewDrink(u)
      OBVIOUS
    <3> QED
      BY <1>2, <1>4, <1>5, TransactionFacts
  <2>2. CASE q # p /\ r # p
    BY <1>2, <1>6, <1>9, <2>2 DEF Apart
  <2>3. CASE q = p
    BY <1>6, <1>8, <1>9, <2>1, <2>3
  <2>4. CASE r = p
    BY <1>6, <1>8, <1>9, <2>1, <2>4
  <2> QED
    BY <2>2, <2>3, <2>4
<1>13. Order'
  <2> SUFFICES ASSUME "disorder" \notin amiss PROVE Order'
    BY <1>3 DEF Order
  <2>1. /\ \A i, j \in DOMAIN queue :
             i < j /\ ~queue[j].rebuild => queue[i].drink < queue[j].drink
        /\ \A q \in Requests : \A y \in NewDrink(q), x \in DOMAIN drink : x < y
        /\ \A q \in Requests : \A y \in NewDrink(q), i \in DOMAIN queue :
             ~open[q].queued => queue[i].drink < y
    BY <1>2 DEF Order
  <2>2. ASSUME NEW q \in Requests, NEW y \in NewDrink(q)', NEW x \in DOMAIN drink'
        PROVE  x < y
    <3>1. CASE q = p
      BY <1>3, <1>4, <1>5, <1>9, <3>1
    <3>2. CASE q # p
      BY <1>3, <1>9, <2>1, <3>2
    <3> QED
      BY <3>1, <3>2
  <2>3. ASSUME NEW q \in Requests, NEW y \in NewDrink(q)', NEW i \in DOMAIN queue',
               ~open'[q].queued
        PROVE  queue'[i].drink < y
    <3>1. CASE q = p
      <4>1. queue[i].drink \in Nat /\ queue[i].drink <= lastDrink
        BY <1>2, <1>3, TypesFacts
      <4> QED
        BY <1>3, <1>4, <1>5, <1>9, <3>1, <4>1
    <3>2. CASE q # p
      BY <1>3, <1>6, <1>9, <2>1, <2>3, <3>2
    <3> QED
      BY <3>1, <3>2
  <2> QED
    BY <1>3, <2>1, <2>2, <2>3 DEF Order
<1>14. Rebuilds'
  <2> SUFFICES ASSUME amiss \subseteq {"missed build"} PROVE Rebuilds'
    BY <1>3 DEF Rebuilds
  <2>1. ChangesHaveJobs /\ RowsAreGood /\ AllOrNone
    BY <1>2 DEF Rebuilds
  <2>2. ChangesHaveJobs'
    BY <1>3, <1>6, <1>9, <2>1 DEF ChangesHaveJobs
  <2>3. RowsAreGood' /\ AllOrNone'
    BY <1>3, <2>1 DEF RowsAreGood, AllOrNone, Clean
  <2> QED
    BY <2>2, <2>3 DEF Rebuilds
<1>15. Builds'
  <2> SUFFICES ASSUME amiss = {} PROVE Builds'
    BY <1>3 DEF Builds
  <2>1. PoursHaveJobs /\ MissingHaveJobs
    BY <1>2 DEF Builds
  <2>2. PoursHaveJobs'
    <3> SUFFICES ASSUME NEW q \in Requests, NEW y \in NewDrink(q)', open'[q].queued
                 PROVE  \E i \in DOMAIN queue' : /\ queue'[i].by = q /\ ~queue'[i].rebuild
                                                 /\ queue'[i].drink = y
      BY DEF PoursHaveJobs
    <3>1. q # p
      BY <1>6, <1>8
    <3> QED
      BY <1>3, <1>6, <1>9, <2>1, <3>1 DEF PoursHaveJobs
  <2>3. MissingHaveJobs'
    BY <1>3, <2>1 DEF MissingHaveJobs, Clean
  <2> QED
    BY <2>2, <2>3 DEF Builds
<1> QED
  BY <1>10, <1>11, <1>12, <1>13, <1>14, <1>15 DEF StatisticsInv

\* RollBack: the job that stays behind is for a drink that is not there, or one that has not
\* changed.
LEMMA RollBackKeepsInv ==
  ASSUME StatisticsInv, NEW p \in Requests, RollBack(p)
  PROVE  StatisticsInv'
<1>1. Types /\ Shape /\ Apart /\ Order /\ Rebuilds /\ Builds
  BY DEF StatisticsInv
<1>2. /\ Close(p) /\ open[p] # None
      /\ lastDrink' = lastDrink /\ drink' = drink /\ changes' = changes
      /\ rows' = rows /\ amiss' = amiss
  BY DEF RollBack, Close
<1>3. queue \in Seq(Jobs) /\ IsTable(open)
  BY <1>1 DEF Types
<1>4. /\ queue' \in Seq(Jobs) /\ DOMAIN queue' = DOMAIN queue
      /\ \A i \in DOMAIN queue : /\ queue'[i].drink = queue[i].drink
                                 /\ queue'[i].rebuild = queue[i].rebuild
                                 /\ queue[i].by # p => queue'[i].by = queue[i].by
  BY <1>2, <1>3, CloseFacts
<1>5. /\ open'[p] = None /\ IsTable(open')
      /\ \A q \in Requests : q # p => open'[q] = open[q]
  BY <1>2, <1>3 DEF Close, IsTable
<1>6. /\ \A q \in Requests : q # p => NewDrink(q)' = NewDrink(q)
      /\ NewDrink(p)' = {}
  <2>1. \A q \in Requests : q # p => NewDrink(q)' = NewDrink(q)
    BY <1>2, <1>5, OthersStay
  <2>2. NewDrink(p)' = {}
    BY <1>5 DEF NewDrink
  <2> QED
    BY <2>1, <2>2
<1>7. Clean' = Clean
  BY <1>4 DEF Clean
<1>8. Types'
  <2>1. /\ lastDrink \in 0 .. MaxDrinks /\ changes \in 0 .. MaxChanges
        /\ DrinksOK /\ RowsOK
        /\ \A i \in DOMAIN queue : queue[i].drink <= lastDrink
        /\ amiss \subseteq {"missed build", "missed rebuild", "disorder"}
    BY <1>1 DEF Types
  <2>2. DrinksOK' /\ RowsOK'
    BY <1>2, <2>1 DEF DrinksOK, RowsOK
  <2>3. \A i \in DOMAIN queue' : queue'[i].drink <= lastDrink'
    BY <1>2, <1>4, <2>1
  <2> QED
    BY <1>2, <1>4, <1>5, <2>1, <2>2, <2>3 DEF Types
<1>9. Shape'
  BY <1>1, <1>2, <1>5 DEF Shape
<1>10. Apart'
  BY <1>1, <1>5, <1>6 DEF Apart
<1>11. Order'
  <2> SUFFICES ASSUME "disorder" \notin amiss PROVE Order'
    BY <1>2 DEF Order
  <2>1. /\ \A i, j \in DOMAIN queue :
             i < j /\ ~queue[j].rebuild => queue[i].drink < queue[j].drink
        /\ \A q \in Requests : \A y \in NewDrink(q), x \in DOMAIN drink : x < y
        /\ \A q \in Requests : \A y \in NewDrink(q), i \in DOMAIN queue :
             ~open[q].queued => queue[i].drink < y
    BY <1>1 DEF Order
  <2>2. /\ \A i, j \in DOMAIN queue' :
             i < j /\ ~queue'[j].rebuild => queue'[i].drink < queue'[j].drink
        /\ \A q \in Requests : \A y \in NewDrink(q)', x \in DOMAIN drink' : x < y
        /\ \A q \in Requests : \A y \in NewDrink(q)', i \in DOMAIN queue' :
             ~open'[q].queued => queue'[i].drink < y
    BY <1>2, <1>4, <1>5, <1>6, <2>1
  <2> QED
    BY <2>2 DEF Order
<1>12. Rebuilds'
  <2> SUFFICES ASSUME amiss \subseteq {"missed build"} PROVE Rebuilds'
    BY <1>2 DEF Rebuilds
  <2>1. ChangesHaveJobs /\ RowsAreGood /\ AllOrNone
    BY <1>1 DEF Rebuilds
  <2>2. ChangesHaveJobs'
    <3> SUFFICES ASSUME NEW q \in Requests, open'[q] # None, NewDrink(q)' = {}
                 PROVE  \E i \in DOMAIN queue' :
                          /\ queue'[i].by = q /\ queue'[i].rebuild
                          /\ \A d \in Touched(open'[q]) : queue'[i].drink <= d
      BY DEF ChangesHaveJobs
    <3>1. q # p /\ open'[q] = open[q] /\ NewDrink(q) = {}
      BY <1>5, <1>6
    <3>2. PICK i \in DOMAIN queue : /\ queue[i].by = q /\ queue[i].rebuild
                                    /\ \A d \in Touched(open[q]) : queue[i].drink <= d
      BY <2>1, <3>1 DEF ChangesHaveJobs
    <3> QED
      BY <1>4, <3>1, <3>2
  <2>3. RowsAreGood'
    BY <1>2, <1>7, <2>1 DEF RowsAreGood
  <2>4. AllOrNone'
    BY <1>2, <1>4, <1>7, <2>1 DEF AllOrNone
  <2> QED
    BY <2>2, <2>3, <2>4 DEF Rebuilds
<1>13. Builds'
  <2> SUFFICES ASSUME amiss = {} PROVE Builds'
    BY <1>2 DEF Builds
  <2>1. PoursHaveJobs /\ MissingHaveJobs
    BY <1>1 DEF Builds
  <2>2. PoursHaveJobs'
    BY <1>4, <1>5, <1>6, <2>1 DEF PoursHaveJobs
  <2>3. MissingHaveJobs'
    BY <1>2, <1>4, <1>7, <2>1 DEF MissingHaveJobs
  <2> QED
    BY <2>2, <2>3 DEF Builds
<1> QED
  BY <1>8, <1>9, <1>10, <1>11, <1>12, <1>13 DEF StatisticsInv

\* SaveSettings: with builds only, what is clean stays so.
LEMMA SaveSettingsKeepsInv ==
  ASSUME StatisticsInv, SaveSettings
  PROVE  StatisticsInv'
<1>1. Types /\ Shape /\ Apart /\ Order /\ Rebuilds /\ Builds
  BY DEF StatisticsInv
<1>2. /\ lastDrink' = lastDrink /\ drink' = drink /\ changes' = changes
      /\ rows' = rows /\ open' = open
  BY DEF SaveSettings
<1>3. /\ queue \in Seq(Jobs) /\ IsTable(open)
  BY <1>1 DEF Types
<1>4. queue' \in Seq(Jobs) /\ DOMAIN queue' = {} /\ DOMAIN queue # {}
  <2>1. queue # << >> /\ queue' = << >>
    BY DEF SaveSettings
  <2>2. 1 \in DOMAIN queue
    BY <1>3, <2>1, TailFacts
  <2> QED
    BY <2>1, <2>2
<1>5. /\ amiss \subseteq amiss' /\ amiss' # {}
      /\ amiss' \subseteq amiss \cup {"missed build", "missed rebuild"}
      /\ \A i \in DOMAIN queue : queue[i].rebuild => "missed rebuild" \in amiss'
  <2> DEFINE way(i) == IF queue[i].rebuild THEN "missed rebuild" ELSE "missed build"
  <2>1. amiss' = amiss \cup {way(i) : i \in DOMAIN queue}
    BY DEF SaveSettings
  <2>2. \A i \in DOMAIN queue : /\ way(i) \in {"missed build", "missed rebuild"}
                                /\ queue[i].rebuild => way(i) = "missed rebuild"
    OBVIOUS
  <2> HIDE DEF way
  <2> QED
    BY <1>4, <2>1, <2>2
<1>6. \A q \in Requests : NewDrink(q)' = NewDrink(q)
  BY <1>2, OthersStay
<1>7. Types'
  <2>1. /\ lastDrink \in 0 .. MaxDrinks /\ changes \in 0 .. MaxChanges
        /\ DrinksOK /\ RowsOK
        /\ amiss \subseteq {"missed build", "missed rebuild", "disorder"}
    BY <1>1 DEF Types
  <2>2. DrinksOK' /\ RowsOK'
    BY <1>2, <2>1 DEF DrinksOK, RowsOK
  <2>3. \A i \in DOMAIN queue' : queue'[i].drink <= lastDrink'
    BY <1>4
  <2>4. amiss' \subseteq {"missed build", "missed rebuild", "disorder"}
    BY <1>5, <2>1
  <2> QED
    BY <1>2, <1>3, <1>4, <2>1, <2>2, <2>3, <2>4 DEF Types
<1>8. Shape' /\ Apart'
  <2>1. Shape'
    BY <1>1, <1>2 DEF Shape
  <2>2. Apart'
    BY <1>1, <1>2, <1>6 DEF Apart
  <2> QED
    BY <2>1, <2>2
<1>9. Order'
  BY <1>1, <1>2, <1>4, <1>5, <1>6 DEF Order
<1>10. Rebuilds'
  <2> SUFFICES ASSUME amiss' \subseteq {"missed build"} PROVE Rebuilds'
    BY DEF Rebuilds
  <2>1. amiss \subseteq {"missed build"}
    BY <1>5
  <2>2. ChangesHaveJobs /\ RowsAreGood /\ AllOrNone
    BY <1>1, <2>1 DEF Rebuilds
  <2>3. \A i \in DOMAIN queue : ~queue[i].rebuild
    BY <1>5
  <2>4. Clean' = Clean
    BY <1>4, <2>3 DEF Clean
  <2>5. ChangesHaveJobs'
    BY <1>2, <1>6, <2>2, <2>3 DEF ChangesHaveJobs
  <2>6. RowsAreGood'
    BY <1>2, <2>2, <2>4 DEF RowsAreGood
  <2>7. AllOrNone'
    BY <1>4 DEF AllOrNone
  <2> QED
    BY <2>5, <2>6, <2>7 DEF Rebuilds
<1>11. Builds'
  BY <1>5 DEF Builds
<1> QED
  BY <1>7, <1>8, <1>9, <1>10, <1>11 DEF StatisticsInv

\* The queue has grown by a job, the n-th.
JobQueued(n, p, d, rebuild) ==
  /\ n \in DOMAIN queue' /\ queue'[n].drink = d
  /\ queue'[n].rebuild = rebuild /\ queue'[n].by = p
  /\ \A i \in DOMAIN queue : /\ i \in DOMAIN queue' /\ i \in Nat /\ i < n
                             /\ queue'[i] = queue[i]
  /\ \A i \in DOMAIN queue' : i \in DOMAIN queue \/ i = n

\* The queue with one more job.
LEMMA QueueFacts ==
  ASSUME queue \in Seq(Jobs), NEW p \in Requests, NEW d \in DrinkIds, NEW rebuild \in BOOLEAN,
         Queue(p, d, rebuild)
  PROVE  /\ queue' \in Seq(Jobs)
         /\ \E n \in Nat : JobQueued(n, p, d, rebuild)
         /\ Clean' = {x \in Clean : rebuild => x < d}
<1> DEFINE job == [drink |-> d, rebuild |-> rebuild, by |-> p]
<1>1. job \in Jobs /\ queue' = Append(queue, job)
  BY DEF Queue, Jobs
<1>2. job.drink = d /\ job.rebuild = rebuild /\ job.by = p
  OBVIOUS
<1> HIDE DEF job
<1>3. /\ Append(queue, job) \in Seq(Jobs)
      /\ Len(queue) + 1 \in DOMAIN Append(queue, job) /\ Len(queue) + 1 \in Nat
      /\ Append(queue, job)[Len(queue) + 1] = job
      /\ \A i \in DOMAIN queue : /\ i \in DOMAIN Append(queue, job) /\ i \in Nat
                                 /\ i < Len(queue) + 1
                                 /\ Append(queue, job)[i] = queue[i]
      /\ \A i \in DOMAIN Append(queue, job) : i \in DOMAIN queue \/ i = Len(queue) + 1
  BY <1>1, AppendFacts
<1> DEFINE n == Len(queue) + 1
<1>4. /\ n \in Nat /\ n \in DOMAIN queue' /\ queue'[n] = job
      /\ \A i \in DOMAIN queue : /\ i \in DOMAIN queue' /\ i \in Nat /\ i < n
                                 /\ queue'[i] = queue[i]
      /\ \A i \in DOMAIN queue' : i \in DOMAIN queue \/ i = n
  BY <1>1, <1>3, Zenon
<1> HIDE DEF n
<1>5. Clean' = {x \in Clean : rebuild => x < d}
  BY <1>2, <1>4 DEF Clean
<1>6. JobQueued(n, p, d, rebuild)
  BY <1>2, <1>4 DEF JobQueued
<1> QED
  BY <1>1, <1>3, <1>4, <1>5, <1>6

\* PourQueued: the build is for a drink later than all of the queue.
LEMMA PourQueuedKeepsInv ==
  ASSUME StatisticsInv, NEW p \in Requests, PourQueued(p)
  PROVE  StatisticsInv'
<1>1. Types /\ Shape /\ Apart /\ Order /\ Rebuilds /\ Builds
  BY DEF StatisticsInv
<1>2. /\ lastDrink' = lastDrink /\ drink' = drink /\ changes' = changes /\ rows' = rows
      /\ open[p] # None /\ ~open[p].queued
  BY DEF PourQueued
<1>3. /\ queue \in Seq(Jobs) /\ IsTable(open)
  BY <1>1 DEF Types
<1>4. PICK d \in NewDrink(p) :
        LET k == open[p].put[d].keg
        IN  /\ \A q \in Requests : open[q] # None => k \notin open[q].locks
            /\ open' = [open EXCEPT ![p].locks = @ \cup {k}, ![p].queued = TRUE]
            /\ Queue(p, d, FALSE)
  BY DEF PourQueued
<1> DEFINE k == open[p].put[d].keg
           t == open[p]
           u == [locks |-> t.locks \cup {k}, gone |-> t.gone, put |-> t.put, queued |-> TRUE]
<1>5. NewDrink(p) = {d} /\ IsPour(drink, lastDrink, t, d) /\ d \in 1 .. lastDrink
  <2>1. ~IsChange(drink, t)
    BY <1>2 DEF IsChange
  <2> QED
    BY <1>1, <1>2, <1>4, <2>1, TransactionFacts
<1>6. /\ d \in DrinkIds /\ d \in Nat /\ d <= lastDrink
      /\ \A i \in DOMAIN queue : queue[i].drink \in Nat
  <2>1. lastDrink \in Nat /\ lastDrink \in 0 .. MaxDrinks
    BY <1>1, TypesFacts DEF Types
  <2>2. MaxDrinks \in Nat
    BY StatisticsAssumption
  <2>3. d \in DrinkIds /\ d \in Nat /\ d <= lastDrink
    BY <1>5, <2>1, <2>2 DEF DrinkIds
  <2> QED
    BY <1>1, <2>3, TypesFacts
<1>7. /\ open'[p] = u /\ IsTable(open')
      /\ \A q \in Requests : q # p => open'[q] = open[q]
      /\ \A q \in Requests : open[q] # None => k \notin open[q].locks
  <2>1. t = [locks |-> t.locks, gone |-> t.gone, put |-> t.put, queued |-> t.queued]
    BY <1>1, <1>2 DEF Shape, IsTransaction
  <2>2. open' = [open EXCEPT ![p].locks = t.locks \cup {k}, ![p].queued = TRUE]
    BY <1>4
  <2>3. open' = [open EXCEPT ![p] = [[t EXCEPT !.locks = t.locks \cup {k}] EXCEPT !.queued = TRUE]]
    BY <1>3, <2>2 DEF IsTable
  <2>4. [[t EXCEPT !.locks = t.locks \cup {k}] EXCEPT !.queued = TRUE] = u
    <3>1. \E a, b, c, e : t = [locks |-> a, gone |-> b, put |-> c, queued |-> e]
      BY <2>1
    <3>2. PICK a, b, c, e : t = [locks |-> a, gone |-> b, put |-> c, queued |-> e]
      BY <3>1
    <3>3. u = [locks |-> t.locks \cup {k}, gone |-> b, put |-> c, queued |-> TRUE]
      BY <3>2
    <3> DEFINE x == t.locks \cup {k}
               y == TRUE
               w == [t EXCEPT !.locks = x]
    <3> HIDE DEF t, x, y, u
    <3>4. w = [locks |-> x, gone |-> b, put |-> c, queued |-> e]
      BY <3>2
    <3> HIDE DEF w
    <3>5. [w EXCEPT !.queued = y] = [locks |-> x, gone |-> b, put |-> c, queued |-> y]
      BY <3>4
    <3> QED
      BY <3>3, <3>5, Zenon DEF x, y, w
  <2> QED
    BY <1>3, <1>4, <2>3, <2>4 DEF IsTable
<1>8. /\ u.locks = t.locks \cup {k} /\ u.gone = t.gone /\ u.put = t.put /\ u.queued = TRUE
      /\ u = [locks |-> u.locks, gone |-> u.gone, put |-> u.put, queued |-> u.queued]
  OBVIOUS
<1> HIDE DEF u, k
<1>9. /\ \A q \in Requests : q # p => NewDrink(q)' = NewDrink(q)
      /\ NewDrink(p)' \subseteq {d}
      /\ open'[p] # None => NewDrink(p)' = {d}
  <2>1. \A q \in Requests : q # p => NewDrink(q)' = NewDrink(q)
    BY <1>2, <1>7, OthersStay
  <2>2. NewDrink(p)' = IF open'[p] = None THEN {} ELSE DOMAIN t.put \ DOMAIN drink
    BY <1>2, <1>7, <1>8 DEF NewDrink
  <2>3. DOMAIN t.put \ DOMAIN drink = {d}
    BY <1>2, <1>5 DEF NewDrink
  <2> QED
    BY <2>1, <2>2, <2>3
<1>10. PICK n \in Nat : JobQueued(n, p, d, FALSE)
  <2>1. Queue(p, d, FALSE) /\ FALSE \in BOOLEAN
    BY <1>4
  <2> QED
    BY <1>3, <1>6, <2>1, QueueFacts, Zenon
<1>11. /\ n \in DOMAIN queue' /\ queue'[n].drink = d
       /\ ~queue'[n].rebuild /\ queue'[n].by = p
       /\ \A i \in DOMAIN queue : /\ i \in DOMAIN queue' /\ i \in Nat /\ i < n
                                  /\ queue'[i] = queue[i]
       /\ \A i \in DOMAIN queue' : i \in DOMAIN queue \/ i = n
  BY <1>10 DEF JobQueued
<1>12. queue' \in Seq(Jobs) /\ Clean' = Clean
  <2>1. Queue(p, d, FALSE) /\ FALSE \in BOOLEAN
    BY <1>4
  <2>2. queue' \in Seq(Jobs) /\ Clean' = {x \in Clean : FALSE => x < d}
    BY <1>3, <1>6, <2>1, QueueFacts, Zenon
  <2> QED
    BY <2>2
<1>13. /\ amiss' \subseteq amiss \cup {"disorder"} /\ amiss \subseteq amiss'
       /\ "disorder" \notin amiss' => {q \in PoursBefore(p) : ~open[q].queued} = {}
  BY DEF PourQueued, Overtaking
<1>14. Types'
  <2>1. /\ lastDrink \in 0 .. MaxDrinks /\ changes \in 0 .. MaxChanges
        /\ DrinksOK /\ RowsOK
        /\ amiss \subseteq {"missed build", "missed rebuild", "disorder"}
    BY <1>1 DEF Types
  <2>2. DrinksOK' /\ RowsOK'
    BY <1>2, <2>1 DEF DrinksOK, RowsOK
  <2>3. \A i \in DOMAIN queue : queue[i].drink <= lastDrink
    BY <1>1 DEF Types
  <2>4. \A i \in DOMAIN queue' : queue'[i].drink <= lastDrink'
    BY <1>2, <1>6, <1>11, <2>3
  <2>5. amiss' \subseteq {"missed build", "missed rebuild", "disorder"}
    BY <1>13, <2>1
  <2> QED
    BY <1>2, <1>7, <1>12, <2>1, <2>2, <2>4, <2>5 DEF Types
<1>15. Shape'
  <2> SUFFICES ASSUME NEW q \in Requests, open'[q] # None
               PROVE  IsTransaction(drink', lastDrink', open'[q])
    BY DEF Shape
  <2>1. CASE q = p
    <3>1. IsPour(drink', lastDrink', u, d)
      BY <1>2, <1>5, <1>8 DEF IsPour
    <3> QED
      BY <1>2, <1>5, <1>7, <1>8, <2>1, <3>1 DEF IsTransaction
  <2>2. CASE q # p
    BY <1>1, <1>2, <1>7, <2>2 DEF Shape
  <2> QED
    BY <2>1, <2>2
<1>16. Apart'
  <2> SUFFICES ASSUME NEW q \in Requests, NEW r \in Requests, q # r,
                      open'[q] # None, open'[r] # None
               PROVE  /\ open'[q].locks \cap open'[r].locks = {}
                      /\ NewDrink(q)' \cap NewDrink(r)' = {}
    BY DEF Apart
  <2>1. NewDrink(p)' \subseteq NewDrink(p)
    BY <1>5, <1>9
  <2>2. open[q] # None /\ open[r] # None
    BY <1>2, <1>7
  <2>3. open[q].locks \cap open[r].locks = {} /\ NewDrink(q) \cap NewDrink(r) = {}
    BY <1>1, <2>2 DEF Apart
  <2>4. NewDrink(q)' \subseteq NewDrink(q) /\ NewDrink(r)' \subseteq NewDrink(r)
    BY <1>9, <2>1
  <2>5. open'[q].locks \cap open'[r].locks = {}
    BY <1>7, <1>8, <2>2, <2>3
  <2> QED
    BY <2>3, <2>4, <2>5
<1>17. Order'
  <2> SUFFICES ASSUME "disorder" \notin amiss' PROVE Order'
    BY DEF Order
  <2>1. /\ \A i, j \in DOMAIN queue :
             i < j /\ ~queue[j].rebuild => queue[i].drink < queue[j].drink
        /\ \A q \in Requests : \A y \in NewDrink(q), x \in DOMAIN drink : x < y
        /\ \A q \in Requests : \A y \in NewDrink(q), i \in DOMAIN queue :
             ~open[q].queued => queue[i].drink < y
    BY <1>1, <1>13 DEF Order
  <2>2. \A i \in DOMAIN queue : queue[i].drink < d
    BY <1>2, <1>5, <2>1
  <2>3. ASSUME NEW i \in DOMAIN queue', NEW j \in DOMAIN queue', i < j, ~queue'[j].rebuild
        PROVE  queue'[i].drink < queue'[j].drink
    <3>1. i \in DOMAIN queue
      BY <1>11, <2>3
    <3> QED
      BY <1>11, <2>1, <2>2, <2>3, <3>1
  <2>4. ASSUME NEW q \in Requests, NEW y \in NewDrink(q)', NEW x \in DOMAIN drink'
        PROVE  x < y
    BY <1>2, <1>5, <1>9, <2>1
  <2>5. ASSUME NEW q \in Requests, NEW y \in NewDrink(q)', NEW i \in DOMAIN queue',
               ~open'[q].queued
        PROVE  queue'[i].drink < y
    <3>1. q # p /\ y \in NewDrink(q) /\ ~open[q].queued
      BY <1>7, <1>8, <1>9, <2>5
    <3>2. CASE i \in DOMAIN queue
      BY <1>11, <2>1, <3>1, <3>2
    <3>3. CASE i = n
      <4>1. y # d /\ y \in Nat
        <5>1. open[q] # None
          BY <3>1 DEF NewDrink
        <5>2. NewDrink(q) \cap NewDrink(p) = {}
          BY <1>1, <1>2, <3>1, <5>1 DEF Apart
        <5>3. \E e \in 1 .. lastDrink : NewDrink(q) = {e}
          BY <1>1, <3>1, <5>1, TransactionFacts
        <5>4. lastDrink \in Nat
          BY <1>1, TypesFacts
        <5>5. y # d
          BY <1>5, <3>1, <5>2
        <5>6. y \in Nat
          BY <3>1, <5>3, <5>4
        <5> QED
          BY <5>5, <5>6
      <4>2. ~(y < d)
        <5>1. y < d => q \in PoursBefore(p)
          BY <1>5, <3>1 DEF PoursBefore
        <5> QED
          BY <1>13, <3>1, <5>1
      <4> QED
        BY <1>6, <1>11, <3>3, <4>1, <4>2
    <3> QED
      BY <1>11, <3>2, <3>3
  <2> QED
    BY <2>3, <2>4, <2>5 DEF Order
<1>18. Rebuilds'
  <2> SUFFICES ASSUME amiss' \subseteq {"missed build"} PROVE Rebuilds'
    BY DEF Rebuilds
  <2>1. ChangesHaveJobs /\ RowsAreGood /\ AllOrNone
    BY <1>1, <1>13 DEF Rebuilds
  <2>2. ChangesHaveJobs'
    <3> SUFFICES ASSUME NEW q \in Requests, open'[q] # None, NewDrink(q)' = {}
                 PROVE  \E i \in DOMAIN queue' :
                          /\ queue'[i].by = q /\ queue'[i].rebuild
                          /\ \A e \in Touched(open'[q]) : queue'[i].drink <= e
      BY DEF ChangesHaveJobs
    <3>1. q # p /\ open'[q] = open[q] /\ NewDrink(q) = {}
      BY <1>7, <1>9
    <3>2. PICK i \in DOMAIN queue : /\ queue[i].by = q /\ queue[i].rebuild
                                    /\ \A e \in Touched(open[q]) : queue[i].drink <= e
      BY <2>1, <3>1 DEF ChangesHaveJobs
    <3> QED
      BY <1>11, <3>1, <3>2
  <2>3. RowsAreGood'
    BY <1>2, <1>12, <2>1 DEF RowsAreGood
  <2>4. AllOrNone'
    <3> SUFFICES ASSUME NEW i \in DOMAIN queue', ~queue'[i].rebuild, queue'[i].drink \in Clean',
                        NEW v \in View, NEW w \in View, queue'[i].drink \in ViewOf(drink', v),
                        queue'[i].drink \in ViewOf(drink', w),
                        queue'[i].drink \in IdsOf(rows'[v])
                 PROVE  queue'[i].drink \in IdsOf(rows'[w])
      BY DEF AllOrNone
    <3>1. i \in DOMAIN queue
      <4>1. d \notin ViewOf(drink, v)
        BY <1>5 DEF IsPour, ViewOf
      <4> QED
        BY <1>2, <1>11, <4>1
    <3> QED
      BY <1>2, <1>11, <1>12, <2>1, <3>1 DEF AllOrNone
  <2> QED
    BY <2>2, <2>3, <2>4 DEF Rebuilds
<1>19. Builds'
  <2> SUFFICES ASSUME amiss' = {} PROVE Builds'
    BY DEF Builds
  <2>1. PoursHaveJobs /\ MissingHaveJobs
    BY <1>1, <1>13 DEF Builds
  <2>2. PoursHaveJobs'
    <3> SUFFICES ASSUME NEW q \in Requests, NEW y \in NewDrink(q)', open'[q].queued
                 PROVE  \E i \in DOMAIN queue' : /\ queue'[i].by = q /\ ~queue'[i].rebuild
                                                 /\ queue'[i].drink = y
      BY DEF PoursHaveJobs
    <3>1. CASE q = p
      BY <1>9, <1>11, <3>1
    <3>2. CASE q # p
      <4>1. PICK i \in DOMAIN queue : /\ queue[i].by = q /\ ~queue[i].rebuild
                                      /\ queue[i].drink = y
        BY <1>7, <1>9, <2>1, <3>2 DEF PoursHaveJobs
      <4> QED
        BY <1>11, <4>1
    <3> QED
      BY <3>1, <3>2
  <2>3. MissingHaveJobs'
    <3> SUFFICES ASSUME NEW v \in View, NEW x \in ViewOf(drink, v), x \in Clean,
                        x \notin IdsOf(rows[v])
                 PROVE  \E i \in DOMAIN queue' : ~queue'[i].rebuild /\ queue'[i].drink = x
      BY <1>2, <1>12 DEF MissingHaveJobs
    <3>1. PICK i \in DOMAIN queue : ~queue[i].rebuild /\ queue[i].drink = x
      BY <2>1 DEF MissingHaveJobs
    <3> QED
      BY <1>11, <3>1
  <2> QED
    BY <2>2, <2>3 DEF Builds
<1> QED
  BY <1>14, <1>15, <1>16, <1>17, <1>18, <1>19 DEF StatisticsInv

\* Request p begins to change drinks of sessions it has locked, and queues the rebuild from d.
LEMMA ChangeKeepsInv ==
  ASSUME StatisticsInv, NEW p \in Requests, NEW locks, NEW gone, NEW put,
         NEW d \in DOMAIN drink, Change(p, locks, gone, put, d),
         \A x \in gone \cup DOMAIN put : x \in DOMAIN drink /\ drink[x].session \in locks /\ d <= x,
         \A x \in DOMAIN put : put[x] \in DrinkRow
  PROVE  StatisticsInv'
<1>1. Types /\ Shape /\ Apart /\ Order /\ Rebuilds /\ Builds
  BY DEF StatisticsInv
<1>2. /\ lastDrink' = lastDrink /\ drink' = drink /\ rows' = rows /\ amiss' = amiss
      /\ changes' = changes + 1 /\ changes < MaxChanges
      /\ Open(p, locks, gone, put, TRUE) /\ Queue(p, d, TRUE)
  BY DEF Change
<1>3. /\ queue \in Seq(Jobs) /\ IsTable(open) /\ changes \in 0 .. MaxChanges
      /\ lastDrink \in 0 .. MaxDrinks
  BY <1>1 DEF Types
<1>4. /\ d \in DrinkIds /\ d \in Nat /\ d <= lastDrink
      /\ \A i \in DOMAIN queue : queue[i].drink \in Nat
  <2>1. /\ lastDrink \in Nat /\ DOMAIN drink \subseteq 1 .. lastDrink
        /\ DOMAIN drink \subseteq DrinkIds
        /\ \A i \in DOMAIN queue : queue[i].drink \in Nat
    BY <1>1, TypesFacts
  <2> QED
    BY <2>1
<1> DEFINE t == [locks |-> locks, gone |-> gone, put |-> put, queued |-> TRUE]
<1>5. /\ open[p] = None /\ open'[p] = t
      /\ \A q \in Requests : q # p => open'[q] = open[q]
      /\ \A q \in Requests : q # p /\ open[q] # None => locks \cap open[q].locks = {}
      /\ IsTable(open')
  BY <1>2, <1>3 DEF Open, IsTable
<1>6. /\ t.locks = locks /\ t.gone = gone /\ t.put = put /\ t.queued
      /\ t.queued \in BOOLEAN
      /\ t = [locks |-> t.locks, gone |-> t.gone, put |-> t.put, queued |-> t.queued]
  OBVIOUS
<1> HIDE DEF t
<1>7. IsChange(drink, t) /\ Touched(t) = gone \cup DOMAIN put
  BY <1>6 DEF IsChange, Touched
<1>8. /\ \A q \in Requests : q # p => NewDrink(q)' = NewDrink(q)
      /\ NewDrink(p)' = {}
  <2>1. \A q \in Requests : q # p => NewDrink(q)' = NewDrink(q)
    BY <1>2, <1>5, OthersStay
  <2>2. NewDrink(p)' = {}
    BY <1>2, <1>5, <1>6, <1>7 DEF NewDrink
  <2> QED
    BY <2>1, <2>2
<1>9. /\ queue' \in Seq(Jobs) /\ Clean' \in SUBSET Clean
      /\ \E n \in Nat : JobQueued(n, p, d, TRUE)
  <2>1. TRUE \in BOOLEAN
    OBVIOUS
  <2>2. /\ queue' \in Seq(Jobs)
        /\ \E n \in Nat : JobQueued(n, p, d, TRUE)
        /\ Clean' = {x \in Clean : TRUE => x < d}
    BY <1>2, <1>3, <1>4, <2>1, QueueFacts, Zenon
  <2> QED
    BY <2>2
<1>10. PICK n \in Nat : JobQueued(n, p, d, TRUE)
  BY <1>9
<1>11. /\ n \in DOMAIN queue' /\ queue'[n].drink = d
       /\ queue'[n].rebuild /\ queue'[n].by = p
       /\ \A i \in DOMAIN queue : /\ i \in DOMAIN queue' /\ i \in Nat /\ i < n
                                  /\ queue'[i] = queue[i]
       /\ \A i \in DOMAIN queue' : i \in DOMAIN queue \/ i = n
  BY <1>10 DEF JobQueued
<1>12. Types'
  <2>1. /\ DrinksOK /\ RowsOK
        /\ amiss \subseteq {"missed build", "missed rebuild", "disorder"}
    BY <1>1 DEF Types
  <2>2. DrinksOK' /\ RowsOK'
    BY <1>2, <2>1 DEF DrinksOK, RowsOK
  <2>3. \A i \in DOMAIN queue : queue[i].drink <= lastDrink
    BY <1>1 DEF Types
  <2>4. \A i \in DOMAIN queue' : queue'[i].drink <= lastDrink'
    BY <1>2, <1>4, <1>11, <2>3
  <2>5. changes' \in 0 .. MaxChanges
    <3>1. MaxChanges \in Nat
      BY StatisticsAssumption
    <3> QED
      BY <1>2, <1>3, <3>1
  <2> QED
    BY <1>2, <1>3, <1>5, <1>9, <2>1, <2>2, <2>4, <2>5 DEF Types
<1>13. Shape'
  <2> SUFFICES ASSUME NEW q \in Requests, open'[q] # None
               PROVE  IsTransaction(drink', lastDrink', open'[q])
    BY DEF Shape
  <2>1. CASE q = p
    BY <1>2, <1>5, <1>6, <1>7, <2>1 DEF IsTransaction
  <2>2. CASE q # p
    BY <1>1, <1>2, <1>5, <2>2 DEF Shape
  <2> QED
    BY <2>1, <2>2
<1>14. Apart'
  <2> SUFFICES ASSUME NEW q \in Requests, NEW r \in Requests, q # r,
                      open'[q] # None, open'[r] # None
               PROVE  /\ open'[q].locks \cap open'[r].locks = {}
                      /\ NewDrink(q)' \cap NewDrink(r)' = {}
    BY DEF Apart
  <2>1. CASE q # p /\ r # p
    BY <1>1, <1>5, <1>8, <2>1 DEF Apart
  <2>2. CASE q = p
    BY <1>5, <1>6, <1>8, <2>2
  <2>3. CASE r = p
    BY <1>5, <1>6, <1>8, <2>3
  <2> QED
    BY <2>1, <2>2, <2>3
<1>15. Order'
  <2> SUFFICES ASSUME "disorder" \notin amiss PROVE Order'
    BY <1>2 DEF Order
  <2>1. /\ \A i, j \in DOMAIN queue :
             i < j /\ ~queue[j].rebuild => queue[i].drink < queue[j].drink
        /\ \A q \in Requests : \A y \in NewDrink(q), x \in DOMAIN drink : x < y
        /\ \A q \in Requests : \A y \in NewDrink(q), i \in DOMAIN queue :
             ~open[q].queued => queue[i].drink < y
    BY <1>1 DEF Order
  <2>2. ASSUME NEW i \in DOMAIN queue', NEW j \in DOMAIN queue', i < j, ~queue'[j].rebuild
        PROVE  queue'[i].drink < queue'[j].drink
    <3>1. j \in DOMAIN queue
      BY <1>11, <2>2
    <3>2. j < n
      BY <1>11, <3>1
    <3>3. i \in DOMAIN queue
      BY <1>11, <2>2, <3>2
    <3> QED
      BY <1>11, <2>1, <2>2, <3>1, <3>3
  <2>3. ASSUME NEW q \in Requests, NEW y \in NewDrink(q)', NEW x \in DOMAIN drink'
        PROVE  x < y
    BY <1>2, <1>8, <2>1
  <2>4. ASSUME NEW q \in Requests, NEW y \in NewDrink(q)', NEW i \in DOMAIN queue',
               ~open'[q].queued
        PROVE  queue'[i].drink < y
    <3>1. q # p /\ y \in NewDrink(q) /\ ~open[q].queued
      BY <1>5, <1>8, <2>4
    <3> QED
      BY <1>11, <2>1, <3>1
  <2> QED
    BY <2>2, <2>3, <2>4 DEF Order
<1>16. Rebuilds'
  <2> SUFFICES ASSUME amiss \subseteq {"missed build"} PROVE Rebuilds'
    BY <1>2 DEF Rebuilds
  <2>1. ChangesHaveJobs /\ RowsAreGood /\ AllOrNone
    BY <1>1 DEF Rebuilds
  <2>2. ChangesHaveJobs'
    <3> SUFFICES ASSUME NEW q \in Requests, open'[q] # None, NewDrink(q)' = {}
                 PROVE  \E i \in DOMAIN queue' :
                          /\ queue'[i].by = q /\ queue'[i].rebuild
                          /\ \A e \in Touched(open'[q]) : queue'[i].drink <= e
      BY DEF ChangesHaveJobs
    <3>1. CASE q = p
      BY <1>5, <1>7, <1>11, <3>1
    <3>2. CASE q # p
      <4>1. PICK i \in DOMAIN queue : /\ queue[i].by = q /\ queue[i].rebuild
                                      /\ \A e \in Touched(open[q]) : queue[i].drink <= e
        BY <1>5, <1>8, <2>1, <3>2 DEF ChangesHaveJobs
      <4> QED
        BY <1>5, <1>11, <3>2, <4>1
    <3> QED
      BY <3>1, <3>2
  <2>3. RowsAreGood'
    <3>1. \A v \in View : Good(drink, v, rows[v], Clean')
      BY <1>9, <2>1, GoodForLess DEF RowsAreGood
    <3> QED
      BY <1>2, <3>1 DEF RowsAreGood
  <2>4. AllOrNone'
    BY <1>2, <1>9, <1>11, <2>1 DEF AllOrNone
  <2> QED
    BY <2>2, <2>3, <2>4 DEF Rebuilds
<1>17. Builds'
  <2> SUFFICES ASSUME amiss = {} PROVE Builds'
    BY <1>2 DEF Builds
  <2>1. PoursHaveJobs /\ MissingHaveJobs
    BY <1>1 DEF Builds
  <2>2. PoursHaveJobs'
    <3> SUFFICES ASSUME NEW q \in Requests, NEW y \in NewDrink(q)', open'[q].queued
                 PROVE  \E i \in DOMAIN queue' : /\ queue'[i].by = q /\ ~queue'[i].rebuild
                                                 /\ queue'[i].drink = y
      BY DEF PoursHaveJobs
    <3>1. PICK i \in DOMAIN queue : /\ queue[i].by = q /\ ~queue[i].rebuild
                                    /\ queue[i].drink = y
      BY <1>5, <1>8, <2>1 DEF PoursHaveJobs
    <3> QED
      BY <1>11, <3>1
  <2>3. MissingHaveJobs'
    <3> SUFFICES ASSUME NEW v \in View, NEW x \in ViewOf(drink, v), x \in Clean',
                        x \notin IdsOf(rows[v])
                 PROVE  \E i \in DOMAIN queue' : ~queue'[i].rebuild /\ queue'[i].drink = x
      BY <1>2 DEF MissingHaveJobs
    <3>1. PICK i \in DOMAIN queue : ~queue[i].rebuild /\ queue[i].drink = x
      BY <1>9, <2>1 DEF MissingHaveJobs
    <3> QED
      BY <1>11, <3>1
  <2> QED
    BY <2>2, <2>3 DEF Builds
<1> QED
  BY <1>12, <1>13, <1>14, <1>15, <1>16, <1>17 DEF StatisticsInv

\* Reassign, SetVolume and CancelDrink rebuild from the drink itself,
LEMMA DrinkChangesKeepInv ==
  ASSUME StatisticsInv, NEW p \in Requests, NEW d \in DOMAIN drink,
         Reassign(p, d) \/ SetVolume(p, d) \/ CancelDrink(p, d)
  PROVE  StatisticsInv'
<1>1. d \in Nat /\ drink[d] \in DrinkRow
  <2>1. Types
    BY DEF StatisticsInv
  <2>2. DrinksOK
    BY <2>1, TypesFacts
  <2> QED
    BY <2>2, DrinkFacts DEF DrinksOK
<1>2. CASE Reassign(p, d)
  <2>1. PICK u \in Users :
          Change(p, {drink[d].session}, {}, [x \in {d} |-> [drink[d] EXCEPT !.user = u]], d)
    BY <1>2 DEF Reassign
  <2>2. [drink[d] EXCEPT !.user = u] \in DrinkRow
    BY <1>1 DEF DrinkRow
  <2>3. PICK locks, put : /\ locks = {drink[d].session}
                          /\ put = [x \in {d} |-> [drink[d] EXCEPT !.user = u]]
                          /\ Change(p, locks, {}, put, d)
    BY <2>1, Zenon
  <2>4. /\ \A x \in {} \cup DOMAIN put :
             x \in DOMAIN drink /\ drink[x].session \in locks /\ d <= x
        /\ \A x \in DOMAIN put : put[x] \in DrinkRow
    BY <1>1, <2>2, <2>3
  <2> QED
    BY <2>3, <2>4, ChangeKeepsInv
<1>3. CASE SetVolume(p, d)
  <2>1. PICK v \in Volumes :
          Change(p, {drink[d].session, drink[d].keg}, {},
                 [x \in {d} |-> [drink[d] EXCEPT !.volume = v]], d)
    BY <1>3 DEF SetVolume
  <2>2. [drink[d] EXCEPT !.volume = v] \in DrinkRow
    BY <1>1 DEF DrinkRow
  <2>3. PICK locks, put : /\ locks = {drink[d].session, drink[d].keg}
                          /\ put = [x \in {d} |-> [drink[d] EXCEPT !.volume = v]]
                          /\ Change(p, locks, {}, put, d)
    BY <2>1, Zenon
  <2>4. /\ \A x \in {} \cup DOMAIN put :
             x \in DOMAIN drink /\ drink[x].session \in locks /\ d <= x
        /\ \A x \in DOMAIN put : put[x] \in DrinkRow
    BY <1>1, <2>2, <2>3
  <2> QED
    BY <2>3, <2>4, ChangeKeepsInv
<1>4. CASE CancelDrink(p, d)
  <2>1. PICK locks, put : /\ locks = {drink[d].session, drink[d].keg} /\ put = << >>
                          /\ Change(p, locks, {d}, put, d)
    BY <1>4, Zenon DEF CancelDrink
  <2>2. DOMAIN put = {}
    BY <2>1
  <2>3. /\ \A x \in {d} \cup DOMAIN put :
             x \in DOMAIN drink /\ drink[x].session \in locks /\ d <= x
        /\ \A x \in DOMAIN put : put[x] \in DrinkRow
    BY <1>1, <2>1, <2>2
  <2> QED
    BY <2>1, <2>3, ChangeKeepsInv
<1> QED
  BY <1>2, <1>3, <1>4

\* and CancelKeg from the first of its drinks.
LEMMA CancelKegKeepsInv ==
  ASSUME StatisticsInv, NEW p \in Requests, NEW k \in Kegs, CancelKeg(p, k)
  PROVE  StatisticsInv'
<1> DEFINE all == {d \in DOMAIN drink : drink[d].keg = k}
<1>1. PICK locks, gone, put, d :
        /\ gone = all /\ gone # {} /\ locks = {drink[x].session : x \in gone} \cup {k}
        /\ put = << >> /\ d = Min(gone)
        /\ Change(p, locks, gone, put, d)
  BY Zenon DEF CancelKeg
<1>2. gone \in SUBSET DOMAIN drink /\ gone \in SUBSET Nat
  <2>1. Types
    BY DEF StatisticsInv
  <2>2. DrinksOK
    BY <2>1, TypesFacts
  <2> QED
    BY <1>1, <2>2, DrinkFacts
<1>3. d \in gone /\ \A x \in gone : d <= x
  BY <1>1, <1>2, MinFacts
<1>4. DOMAIN put = {}
  BY <1>1
<1>5. /\ \A x \in gone \cup DOMAIN put :
           x \in DOMAIN drink /\ drink[x].session \in locks /\ d <= x
      /\ \A x \in DOMAIN put : put[x] \in DrinkRow
  BY <1>1, <1>2, <1>3, <1>4
<1>6. d \in DOMAIN drink
  BY <1>2, <1>3
<1> QED
  BY <1>1, <1>5, <1>6, ChangeKeepsInv

\* Two transactions touch different drinks.
LEMMA TouchedApart ==
  ASSUME Shape, Apart, NEW p \in Requests, NEW q \in Requests, p # q,
         open[p] # None, open[q] # None
  PROVE  Touched(open[p]) \cap Touched(open[q]) = {}
<1>1. /\ open[p].locks \cap open[q].locks = {}
      /\ NewDrink(p) \cap NewDrink(q) = {}
  BY DEF Apart
<1>2. \A r \in {p, q} :
        \/ /\ Touched(open[r]) \subseteq DOMAIN drink
           /\ \A d \in Touched(open[r]) : drink[d].session \in open[r].locks
        \/ \E d : Touched(open[r]) = {d} /\ NewDrink(r) = {d} /\ d \notin DOMAIN drink
  <2> SUFFICES ASSUME NEW r \in {p, q}
               PROVE  \/ /\ Touched(open[r]) \subseteq DOMAIN drink
                         /\ \A d \in Touched(open[r]) : drink[d].session \in open[r].locks
                      \/ \E d : /\ Touched(open[r]) = {d} /\ NewDrink(r) = {d}
                                /\ d \notin DOMAIN drink
    OBVIOUS
  <2>1. CASE IsChange(drink, open[r])
    BY <2>1 DEF IsChange
  <2>2. ASSUME NEW d \in 1 .. lastDrink, IsPour(drink, lastDrink, open[r], d), NewDrink(r) = {d}
        PROVE  Touched(open[r]) = {d} /\ NewDrink(r) = {d} /\ d \notin DOMAIN drink
    BY <2>2 DEF IsPour, Touched
  <2>3. open[r] # None /\ r \in Requests
    OBVIOUS
  <2> QED
    BY <2>1, <2>2, <2>3, TransactionFacts
<1>3. ASSUME NEW d \in Touched(open[p]), d \in Touched(open[q]) PROVE FALSE
  <2>1. CASE d \in DOMAIN drink
    BY <1>1, <1>2, <1>3, <2>1
  <2>2. CASE d \notin DOMAIN drink
    <3>1. d \in NewDrink(p) /\ d \in NewDrink(q)
      BY <1>2, <1>3, <2>2
    <3> QED
      BY <1>1, <3>1
  <2> QED
    BY <2>1, <2>2
<1> QED
  BY <1>3

\* Commit: the drinks it changes are not clean while its rebuild waits, and a new drink is
\* later than all others.
LEMMA CommitKeepsInv ==
  ASSUME StatisticsInv, NEW p \in Requests, Commit(p)
  PROVE  StatisticsInv'
<1>1. Types /\ Shape /\ Apart /\ Order /\ Rebuilds /\ Builds
  BY DEF StatisticsInv
<1> DEFINE t == open[p]
<1>2. /\ Close(p) /\ open[p] # None /\ open[p].queued
      /\ lastDrink' = lastDrink /\ changes' = changes
  BY DEF Commit, Close
<1>3. /\ drink' = [d \in (DOMAIN drink \ t.gone) \cup DOMAIN t.put |->
                     IF d \in DOMAIN t.put THEN t.put[d] ELSE drink[d]]
      /\ rows' = Keep(DrinkIds \ t.gone)
  BY DEF Commit
<1>4. /\ amiss' \subseteq amiss \cup {"disorder"} /\ amiss \subseteq amiss'
      /\ "disorder" \notin amiss' => PoursBefore(p) = {}
  BY DEF Commit, Overtaking
<1>5. queue \in Seq(Jobs) /\ IsTable(open)
  BY <1>1 DEF Types
<1>6. /\ queue' \in Seq(Jobs) /\ DOMAIN queue' = DOMAIN queue
      /\ \A i \in DOMAIN queue : /\ queue'[i].drink = queue[i].drink
                                 /\ queue'[i].rebuild = queue[i].rebuild
                                 /\ queue[i].by # p => queue'[i].by = queue[i].by
  BY <1>2, <1>5, CloseFacts
<1>7. /\ open'[p] = None /\ IsTable(open')
      /\ \A q \in Requests : q # p => open'[q] = open[q]
  BY <1>2, <1>5 DEF Close, IsTable
<1>8. Clean' = Clean
  BY <1>6 DEF Clean
<1>9. /\ DOMAIN drink \in SUBSET DrinkIds /\ DrinkIds \in SUBSET Nat
      /\ lastDrink \in Nat /\ DOMAIN drink \subseteq 1 .. lastDrink
      /\ DrinksOK /\ RowsOK
      /\ \A i \in DOMAIN queue : queue[i].drink \in Nat /\ queue[i].drink <= lastDrink
  BY <1>1, TypesFacts
<1>10. \A x \in DOMAIN drink : x \in Nat /\ x \in DrinkIds
  BY <1>9
<1>11. IsFiniteSet(DOMAIN drink)
  BY <1>9, DrinkFacts
<1>12. \/ IsChange(drink, t) /\ NewDrink(p) = {}
       \/ \E d \in 1 .. lastDrink : IsPour(drink, lastDrink, t, d) /\ NewDrink(p) = {d}
  BY <1>1, <1>2, TransactionFacts
<1>13. \A d \in DOMAIN t.put : t.put[d] \in DrinkRow /\ (d \in DOMAIN drink \/ d \in NewDrink(p))
  BY <1>2, <1>12 DEF IsChange, IsPour, NewDrink
<1>14. /\ DOMAIN drink' = (DOMAIN drink \ t.gone) \cup DOMAIN t.put
       /\ \A d \in DOMAIN drink' : drink'[d] = IF d \in DOMAIN t.put THEN t.put[d] ELSE drink[d]
  BY <1>3
<1>15. \A x : x \notin Touched(t) => /\ x \in DOMAIN drink' <=> x \in DOMAIN drink
                                     /\ x \in DOMAIN drink => drink'[x] = drink[x]
  BY <1>14 DEF Touched
<1>16. DOMAIN drink' \subseteq 1 .. lastDrink /\ DOMAIN drink' \in SUBSET Nat
  <2>1. NewDrink(p) \subseteq 1 .. lastDrink
    BY <1>12
  <2>2. DOMAIN drink' \subseteq 1 .. lastDrink
    BY <1>9, <1>13, <1>14, <2>1
  <2> QED
    BY <1>9, <2>2
<1>17. DrinksOK'
  <2>1. \A d \in DOMAIN drink' : drink'[d] \in DrinkRow
    BY <1>9, <1>13, <1>14 DEF DrinksOK
  <2> QED
    BY <1>2, <1>9, <1>16, <2>1 DEF DrinksOK
<1>18. \A v \in View :
         LET r == rows[v]
         IN  /\ rows'[v] = [i \in {j \in DOMAIN r : r[j].drink \in DrinkIds \ t.gone} |-> r[i]]
             /\ Table(rows'[v])
             /\ IdsOf(rows'[v]) = IdsOf(r) \cap (DrinkIds \ t.gone)
             /\ IdsOf(r) \subseteq DOMAIN drink
  <2> SUFFICES ASSUME NEW v \in View
               PROVE  /\ rows'[v] = [i \in {j \in DOMAIN rows[v] :
                                              rows[v][j].drink \in DrinkIds \ t.gone} |-> rows[v][i]]
                      /\ Table(rows'[v])
                      /\ IdsOf(rows'[v]) = IdsOf(rows[v]) \cap (DrinkIds \ t.gone)
                      /\ IdsOf(rows[v]) \subseteq DOMAIN drink
    OBVIOUS
  <2>1. Table(rows[v]) /\ IdsOf(rows[v]) \subseteq DOMAIN drink
    BY <1>9 DEF RowsOK
  <2> DEFINE ds == DrinkIds \ t.gone
  <2> HIDE DEF ds
  <2>2. /\ Keep(ds)[v] = [i \in {j \in DOMAIN rows[v] : rows[v][j].drink \in ds} |-> rows[v][i]]
        /\ Table(Keep(ds)[v])
        /\ IdsOf(Keep(ds)[v]) = IdsOf(rows[v]) \cap ds
    BY <2>1, KeepFacts
  <2>3. rows' = Keep(ds)
    BY <1>3 DEF ds
  <2>4. /\ rows'[v] = [i \in {j \in DOMAIN rows[v] : rows[v][j].drink \in ds} |-> rows[v][i]]
        /\ Table(rows'[v])
        /\ IdsOf(rows'[v]) = IdsOf(rows[v]) \cap ds
    BY <2>2, <2>3
  <2> QED
    BY <2>1, <2>4 DEF ds
<1>19. RowsOK'
  <2>1. DOMAIN rows' = View
    BY <1>3 DEF Keep
  <2>2. \A v \in View : IdsOf(rows'[v]) \subseteq DOMAIN drink'
    BY <1>14, <1>18
  <2> QED
    BY <1>18, <2>1, <2>2 DEF RowsOK
<1>20. \A q \in Requests : q # p /\ open[q] # None => Touched(t) \cap Touched(open[q]) = {}
  BY <1>1, <1>2, TouchedApart
<1>21. /\ \A q \in Requests : q # p => NewDrink(q)' = NewDrink(q)
       /\ NewDrink(p)' = {}
  <2>1. ASSUME NEW q \in Requests, q # p PROVE NewDrink(q)' = NewDrink(q)
    <3>1. CASE open[q] = None
      BY <1>7, <2>1, <3>1 DEF NewDrink
    <3>2. CASE open[q] # None
      <4>1. \A x \in DOMAIN open[q].put : x \in DOMAIN drink' <=> x \in DOMAIN drink
        BY <1>15, <1>20, <2>1, <3>2 DEF Touched
      <4> QED
        BY <1>7, <2>1, <3>2, <4>1 DEF NewDrink
    <3> QED
      BY <3>1, <3>2
  <2>2. NewDrink(p)' = {}
    BY <1>7 DEF NewDrink
  <2> QED
    BY <2>1, <2>2
<1> HIDE DEF t
<1>22. Types'
  <2>1. /\ lastDrink \in 0 .. MaxDrinks /\ changes \in 0 .. MaxChanges
        /\ amiss \subseteq {"missed build", "missed rebuild", "disorder"}
    BY <1>1 DEF Types
  <2>2. \A i \in DOMAIN queue' : queue'[i].drink <= lastDrink'
    BY <1>2, <1>6, <1>9
  <2>3. amiss' \subseteq {"missed build", "missed rebuild", "disorder"}
    BY <1>4, <2>1
  <2> QED
    BY <1>2, <1>6, <1>7, <1>17, <1>19, <2>1, <2>2, <2>3 DEF Types
<1>23. Shape'
  <2> SUFFICES ASSUME NEW q \in Requests, open'[q] # None
               PROVE  IsTransaction(drink', lastDrink', open'[q])
    BY DEF Shape
  <2> DEFINE u == open[q]
  <2>1. q # p /\ open'[q] = u /\ u # None
    BY <1>7
  <2>2. IsTransaction(drink, lastDrink, u)
    BY <1>1, <2>1 DEF Shape
  <2>3. Touched(t) \cap Touched(u) = {}
    BY <1>20, <2>1
  <2> HIDE DEF u
  <2>4. IsChange(drink, u) => IsChange(drink', u)
    BY <1>15, <2>3 DEF IsChange
  <2>5. \A d \in 1 .. lastDrink : IsPour(drink, lastDrink, u, d) => IsPour(drink', lastDrink, u, d)
    BY <1>15, <2>3 DEF IsPour, Touched
  <2> QED
    BY <1>2, <2>1, <2>2, <2>4, <2>5 DEF IsTransaction
<1>24. Apart'
  BY <1>1, <1>7, <1>21 DEF Apart
<1>25. Order'
  <2> SUFFICES ASSUME "disorder" \notin amiss' PROVE Order'
    BY DEF Order
  <2>1. /\ \A i, j \in DOMAIN queue :
             i < j /\ ~queue[j].rebuild => queue[i].drink < queue[j].drink
        /\ \A q \in Requests : \A y \in NewDrink(q), x \in DOMAIN drink : x < y
        /\ \A q \in Requests : \A y \in NewDrink(q), i \in DOMAIN queue :
             ~open[q].queued => queue[i].drink < y
    BY <1>1, <1>4 DEF Order
  <2>2. ASSUME NEW q \in Requests, NEW y \in NewDrink(q)', NEW x \in DOMAIN drink'
        PROVE  x < y
    <3>1. q # p /\ y \in NewDrink(q)
      BY <1>21
    <3>2. CASE x \in DOMAIN drink
      BY <2>1, <3>1, <3>2
    <3>3. CASE x \notin DOMAIN drink
      <4>1. x \in NewDrink(p)
        BY <1>13, <1>14, <3>3
      <4>2. ~(y < x)
        <5>1. PoursBefore(p) = {}
          BY <1>4
        <5> QED
          BY <3>1, <4>1, <5>1 DEF PoursBefore
      <4>3. open[q] # None
        BY <3>1 DEF NewDrink
      <4>4. x # y
        <5>1. NewDrink(p) \cap NewDrink(q) = {}
          BY <1>1, <1>2, <3>1, <4>3 DEF Apart
        <5> QED
          BY <3>1, <4>1, <5>1
      <4>5. x \in Nat /\ y \in Nat
        <5>1. NewDrink(p) \subseteq 1 .. lastDrink
          BY <1>12
        <5>2. NewDrink(q) \subseteq 1 .. lastDrink
          BY <1>1, <3>1, <4>3, TransactionFacts
        <5> QED
          BY <1>9, <3>1, <4>1, <5>1, <5>2
      <4> QED
        BY <4>2, <4>4, <4>5
    <3> QED
      BY <3>2, <3>3
  <2>3. /\ \A i, j \in DOMAIN queue' :
             i < j /\ ~queue'[j].rebuild => queue'[i].drink < queue'[j].drink
        /\ \A q \in Requests : \A y \in NewDrink(q)', i \in DOMAIN queue' :
             ~open'[q].queued => queue'[i].drink < y
    BY <1>6, <1>7, <1>21, <2>1
  <2> QED
    BY <2>2, <2>3 DEF Order
<1>26. ASSUME amiss' \subseteq {"missed build"}, NEW y \in Clean, y \in DOMAIN drink,
              NEW x \in Nat, x <= y
       PROVE  x \notin Touched(t)
  <2>1. ChangesHaveJobs /\ Order /\ "disorder" \notin amiss
    BY <1>1, <1>4, <1>26 DEF Rebuilds
  <2>2. y \in Nat /\ x \in Nat /\ x <= y
    BY <1>9, <1>26
  <2>3. CASE IsChange(drink, t) /\ NewDrink(p) = {}
    <3>1. PICK i \in DOMAIN queue : /\ queue[i].rebuild
                                    /\ \A d \in Touched(t) : queue[i].drink <= d
      BY <1>2, <2>1, <2>3 DEF ChangesHaveJobs, t
    <3>2. y < queue[i].drink /\ queue[i].drink \in Nat
      BY <1>9, <3>1 DEF Clean
    <3>3. Touched(t) \in SUBSET Nat
      BY <1>9, <2>3 DEF IsChange
    <3>4. \A d \in Touched(t) : d \in Nat /\ queue[i].drink <= d
      BY <3>1, <3>3
    <3>5. \A d \in Touched(t) : x # d
      BY <2>2, <3>2, <3>4
    <3> QED
      BY <3>5
  <2>4. CASE \E d \in 1 .. lastDrink : IsPour(drink, lastDrink, t, d) /\ NewDrink(p) = {d}
    <3>1. PICK d \in 1 .. lastDrink : IsPour(drink, lastDrink, t, d) /\ NewDrink(p) = {d}
      BY <2>4
    <3>2. Touched(t) = {d}
      BY <3>1 DEF IsPour, Touched
    <3>3. y < d
      BY <1>26, <2>1, <3>1 DEF Order
    <3>4. d \in Nat
      BY <1>9
    <3>5. x # d
      BY <2>2, <3>3, <3>4
    <3> QED
      BY <3>2, <3>5
  <2> QED
    BY <1>12, <2>3, <2>4
<1>27. Rebuilds'
  <2> SUFFICES ASSUME amiss' \subseteq {"missed build"} PROVE Rebuilds'
    BY DEF Rebuilds
  <2>1. ChangesHaveJobs /\ RowsAreGood /\ AllOrNone
    BY <1>1, <1>4 DEF Rebuilds
  <2>2. ChangesHaveJobs'
    <3> SUFFICES ASSUME NEW q \in Requests, open'[q] # None, NewDrink(q)' = {}
                 PROVE  \E i \in DOMAIN queue' :
                          /\ queue'[i].by = q /\ queue'[i].rebuild
                          /\ \A d \in Touched(open'[q]) : queue'[i].drink <= d
      BY DEF ChangesHaveJobs
    <3>1. q # p /\ open'[q] = open[q] /\ NewDrink(q) = {}
      BY <1>7, <1>21
    <3>2. PICK i \in DOMAIN queue : /\ queue[i].by = q /\ queue[i].rebuild
                                    /\ \A d \in Touched(open[q]) : queue[i].drink <= d
      BY <2>1, <3>1 DEF ChangesHaveJobs
    <3> QED
      BY <1>6, <3>1, <3>2
  <2>3. RowsAreGood'
    <3> SUFFICES ASSUME NEW v \in View PROVE Good(drink', v, rows'[v], Clean)
      BY <1>8 DEF RowsAreGood
    <3> DEFINE ds == DrinkIds \ t.gone
               r == rows[v]
    <3>1. Good(drink, v, r, Clean)
      BY <2>1 DEF RowsAreGood
    <3>2. /\ rows'[v] = [i \in {j \in DOMAIN r : r[j].drink \in ds} |-> r[i]]
          /\ IdsOf(r) \subseteq DOMAIN drink
      BY <1>18
    <3>3. \A y \in IdsOf(r) \cap ds \cap Clean :
            y \in Clean /\ SameUpTo(drink, drink', y) /\ \A x \in DOMAIN drink : x < y => x \in ds
      <4> SUFFICES ASSUME NEW y \in IdsOf(r), y \in Clean
                   PROVE  /\ SameUpTo(drink, drink', y)
                          /\ \A x \in DOMAIN drink : x < y => x \in ds
        OBVIOUS
      <4>1. y \in DOMAIN drink /\ y \in Nat
        BY <1>9, <3>2
      <4>2. \A x \in Nat : x <= y => x \notin Touched(t)
        BY <1>26, <4>1
      <4>3. SameUpTo(drink, drink', y)
        BY <1>15, <4>2 DEF SameUpTo
      <4>4. ASSUME NEW x \in DOMAIN drink, x < y PROVE x \in ds
        <5>1. x \in Nat /\ x \in DrinkIds
          BY <1>10
        <5>2. y \in Nat /\ x < y
          BY <4>1, <4>4
        <5>3. x <= y
          BY <5>1, <5>2, LessOrEqual, Zenon
        <5>4. x \notin Touched(t)
          BY <4>2, <5>1, <5>3
        <5> QED
          BY <5>1, <5>4 DEF Touched
      <4> QED
        BY <4>3, <4>4
    <3>4. DOMAIN drink \in SUBSET Nat
      BY <1>9
    <3>5. PICK D, E, rs, us, C : D = drink /\ E = drink' /\ rs = r /\ us = rows'[v] /\ C = Clean
      OBVIOUS
    <3> HIDE DEF ds, r
    <3>6. Good(E, v, us, C)
      <4>1. PICK dd : dd = ds
        OBVIOUS
      <4>2. DOMAIN D \in SUBSET Nat
        BY <3>4, <3>5
      <4>3. DOMAIN E \in SUBSET Nat
        BY <1>16, <3>5
      <4>4. IsFiniteSet(DOMAIN D)
        BY <1>11, <3>5
      <4>5. Good(D, v, rs, C)
        BY <3>1, <3>5
      <4>6. \A y \in IdsOf(rs) \cap dd \cap C :
              y \in C /\ SameUpTo(D, E, y) /\ \A x \in DOMAIN D : x < y => x \in dd
        BY <3>3, <3>5, <4>1
      <4>7. us = KeptOf(rs, dd)
        BY <3>2, <3>5, <4>1 DEF KeptOf
      <4> QED
        BY <4>2, <4>3, <4>4, <4>5, <4>6, <4>7, GoodStays
    <3> QED
      BY <3>5, <3>6
  <2>4. AllOrNone'
    <3> SUFFICES ASSUME NEW i \in DOMAIN queue',
                        NEW v \in View, NEW w \in View, NEW y, y = queue'[i].drink,
                        ~queue'[i].rebuild, y \in Clean,
                        y \in ViewOf(drink', v), y \in ViewOf(drink', w), y \in IdsOf(rows'[v])
                 PROVE  y \in IdsOf(rows'[w])
      BY <1>8 DEF AllOrNone
    <3>1. y \in IdsOf(rows[v]) /\ y \in DOMAIN drink /\ y \in DrinkIds \ t.gone
      BY <1>18
    <3>2. y \notin Touched(t)
      <4>1. y \in Nat
        <5>1. y \in DOMAIN drink
          BY <3>1
        <5> QED
          BY <1>10, <5>1
      <4>2. y <= y
        BY <4>1, LessOrEqual, Zenon
      <4>3. \A x \in Nat : x <= y => x \notin Touched(t)
        BY <1>26, <3>1
      <4> QED
        BY <4>1, <4>2, <4>3
    <3>3. y \in ViewOf(drink, v) /\ y \in ViewOf(drink, w)
      BY <1>15, <3>1, <3>2 DEF ViewOf
    <3>4. y \in IdsOf(rows[w])
      BY <1>6, <2>1, <3>1, <3>3 DEF AllOrNone
    <3> QED
      BY <1>18, <3>1, <3>4
  <2> QED
    BY <2>2, <2>3, <2>4 DEF Rebuilds
<1>28. Builds'
  <2> SUFFICES ASSUME amiss' = {} PROVE Builds'
    BY DEF Builds
  <2>1. PoursHaveJobs /\ MissingHaveJobs
    BY <1>1, <1>4 DEF Builds
  <2>2. PoursHaveJobs'
    <3> SUFFICES ASSUME NEW q \in Requests, NEW y \in NewDrink(q)', open'[q].queued
                 PROVE  \E i \in DOMAIN queue' : /\ queue'[i].by = q /\ ~queue'[i].rebuild
                                                 /\ queue'[i].drink = y
      BY DEF PoursHaveJobs
    <3>1. q # p /\ open'[q] = open[q] /\ y \in NewDrink(q)
      BY <1>7, <1>21
    <3>2. PICK i \in DOMAIN queue : /\ queue[i].by = q /\ ~queue[i].rebuild
                                    /\ queue[i].drink = y
      BY <2>1, <3>1 DEF PoursHaveJobs
    <3> QED
      BY <1>6, <3>1, <3>2
  <2>3. MissingHaveJobs'
    <3> SUFFICES ASSUME NEW v \in View, NEW x \in ViewOf(drink', v), x \in Clean,
                        x \notin IdsOf(rows'[v])
                 PROVE  \E i \in DOMAIN queue : ~queue[i].rebuild /\ queue[i].drink = x
      BY <1>6, <1>8 DEF MissingHaveJobs
    <3>1. CASE x \in DOMAIN drink
      <4>1. x \notin Touched(t)
        BY <1>9, <1>26, <3>1
      <4>2. x \in ViewOf(drink, v)
        BY <1>15, <3>1, <4>1 DEF ViewOf
      <4>3. x \notin IdsOf(rows[v])
        BY <1>9, <1>18, <3>1, <4>1 DEF Touched
      <4> QED
        BY <2>1, <4>2, <4>3 DEF MissingHaveJobs
    <3>2. CASE x \notin DOMAIN drink
      <4>1. x \in NewDrink(p)
        BY <1>13, <1>14, <3>2 DEF ViewOf
      <4> QED
        BY <1>2, <2>1, <4>1 DEF PoursHaveJobs
    <3> QED
      BY <3>1, <3>2
  <2> QED
    BY <2>2, <2>3 DEF Builds
<1> QED
  BY <1>22, <1>23, <1>24, <1>25, <1>27, <1>28 DEF StatisticsInv

-----------------------------------------------------------------------------
(* What the worker makes of the rows *)

Outcome(table) ==
  IF \E v \in View : table[v].raised THEN rows ELSE [v \in View |-> table[v].rows]

\* After the build of drink d the rows T are right as far as C goes; none has gone, none is
\* for a drink later than d, and d has one.
MadeByBuild(T, d, v, C) ==
  /\ Table(T) /\ IdsOf(T) \subseteq DOMAIN drink
  /\ Good(drink, v, T, C)
  /\ IdsOf(rows[v]) \subseteq IdsOf(T)
  /\ \A y \in IdsOf(T) : y \in IdsOf(rows[v]) \/ y <= d
  /\ d \in C /\ d \in ViewOf(drink, v) => d \in IdsOf(T)

\* A build list has the drink and some before it.
LEMMA BuildListFacts ==
  ASSUME DrinksOK, NEW v, NEW t, NEW d \in ViewOf(drink, v)
  PROVE  /\ BuildList(t, d, v) \subseteq DOMAIN drink /\ d \in BuildList(t, d, v)
         /\ \A x \in BuildList(t, d, v) : x <= d
<1>1. d \in DOMAIN drink /\ DOMAIN drink \in SUBSET Nat
  BY DrinkFacts DEF ViewOf
<1>2. \A x \in BuildList(t, d, v) : x \in DOMAIN drink /\ (x < d \/ x = d)
  BY <1>1 DEF BuildList, DrinksIn
<1>3. \A x \in BuildList(t, d, v) : x <= d
  <2> SUFFICES ASSUME NEW x \in BuildList(t, d, v) PROVE x <= d
    OBVIOUS
  <2>1. x \in Nat /\ d \in Nat /\ (x < d \/ x = d)
    BY <1>1, <1>2
  <2> QED
    BY <2>1, LessOrEqual, Zenon
<1>4. d \in BuildList(t, d, v)
  BY DEF BuildList
<1> QED
  BY <1>2, <1>3, <1>4

\* What the job of a pour makes of the rows of all views.
LEMMA BuildMakes ==
  ASSUME DrinksOK, RowsOK, NEW d, NEW C, Lower(C),
         \A v \in View : Good(drink, v, rows[v], C),
         d \in C => \A v, w \in View :
           d \in ViewOf(drink, v) /\ d \in ViewOf(drink, w) /\ d \in IdsOf(rows[v])
             => d \in IdsOf(rows[w]),
         NEW made, made = Outcome(BuildForId(d))
  PROVE  DOMAIN made = View /\ \A v \in View : MadeByBuild(made[v], d, v, C)
<1> DEFINE table == BuildForId(d)
           raised == \E v \in View : table[v].raised
<1>1. /\ made = IF raised THEN rows ELSE [v \in View |-> table[v].rows]
      /\ DOMAIN rows = View
  BY DEF Outcome, RowsOK
<1>2. \A v \in View : Table(rows[v]) /\ IdsOf(rows[v]) \subseteq DOMAIN drink
  BY DEF RowsOK
<1>3. ASSUME made = rows, d \in C => \A v \in View : d \in ViewOf(drink, v) => d \in IdsOf(rows[v])
      PROVE  DOMAIN made = View /\ \A v \in View : MadeByBuild(made[v], d, v, C)
  BY <1>1, <1>2, <1>3 DEF MadeByBuild
<1>4. CASE d \notin DOMAIN drink
  <2>1. \A v \in View : table[v].rows = rows[v] /\ ~table[v].raised
    BY <1>4 DEF BuildForId, Begun
  <2> HIDE DEF table
  <2>2. made = [v \in View |-> rows[v]]
    BY <1>1, <2>1
  <2>3. DOMAIN made = View /\ \A v \in View : made[v] = rows[v] /\ d \notin ViewOf(drink, v)
    BY <1>4, <2>2 DEF ViewOf
  <2> QED
    BY <1>2, <2>3 DEF MadeByBuild
<1>5. CASE d \in DOMAIN drink /\ d \in C /\ \E v \in View : d \in IdsOf(rows[v])
  <2>1. PICK v \in View : d \in IdsOf(rows[v])
    BY <1>5
  <2>2. d \in ViewOf(drink, v)
    <3>1. Good(drink, v, rows[v], C)
      OBVIOUS
    <3> QED
      BY <1>5, <2>1, <3>1 DEF Good, IdsOf, RowIsRight
  <2> DEFINE f == FullView(d)
  <2>3. f \in View /\ d \in ViewOf(drink, f)
    BY <1>5, FullViewFacts DEF ViewOf, DrinksOK
  <2>4. d \in IdsOf(rows[f])
    BY <1>5, <2>1, <2>2, <2>3
  <2>5. table[f].raised
    <3>1. Lower({}) /\ Good(drink, f, rows[f], {})
      BY DEF Lower, Good
    <3>2. PICK K : K = {}
      OBVIOUS
    <3>3. PICK g : g = f
      OBVIOUS
    <3> HIDE DEF f, table
    <3>4. /\ Lower(K) /\ Good(drink, g, rows[g], K) /\ (d \in K => d \notin IdsOf(rows[g]))
          /\ g \in View /\ g = FullView(d) /\ d \in IdsOf(rows[g])
      BY <2>3, <2>4, <3>1, <3>2, <3>3 DEF f
    <3>5. BuildForId(d)[g].raised
      BY <1>5, <3>4, BuildForIdAdds
    <3> QED
      BY <3>3, <3>5 DEF table
  <2>6. made = rows
    BY <1>1, <2>3, <2>5
  <2> QED
    BY <1>3, <1>5, <2>1, <2>2, <2>6
<1>6. CASE d \in DOMAIN drink /\ (d \in C => \A v \in View : d \notin IdsOf(rows[v]))
  <2>1. ASSUME NEW v \in View
        PROVE  /\ ~InView(drink[d], v) => table[v].rows = rows[v] /\ ~table[v].raised
               /\ d \in C => ~table[v].raised
               /\ InView(drink[d], v) /\ ~table[v].raised =>
                    /\ Table(table[v].rows)
                    /\ IdsOf(table[v].rows) = IdsOf(rows[v]) \cup BuildList(rows[v], d, v)
                    /\ Good(drink, v, table[v].rows, C)
    <3> DEFINE m == [rows |-> rows[v], raised |-> FALSE]
    <3>1. m.rows = rows[v] /\ ~m.raised
      OBVIOUS
    <3>2. Good(drink, v, rows[v], C) /\ (d \in C => d \notin IdsOf(rows[v]))
      BY <1>6
    <3>3. /\ ~InView(drink[d], v) => table[v] = m
          /\ d \in C => ~table[v].raised
          /\ InView(drink[d], v) /\ ~table[v].raised =>
               Added(table[v], m, v, BuildList(rows[v], d, v), C)
      BY <1>6, <3>2, BuildForIdAdds
    <3> HIDE DEF m, table
    <3> QED
      BY <3>1, <3>3 DEF Added
  <2> HIDE DEF table
  <2>2. CASE raised
    <3>1. d \notin C /\ made = rows
      BY <1>1, <2>1, <2>2
    <3> QED
      BY <1>3, <3>1
  <2>3. CASE ~raised
    <3>1. DOMAIN made = View /\ \A v \in View : made[v] = table[v].rows /\ ~table[v].raised
      BY <1>1, <2>3
    <3>2. ASSUME NEW v \in View PROVE MadeByBuild(made[v], d, v, C)
      <4>1. CASE ~InView(drink[d], v)
        <5>1. made[v] = rows[v] /\ d \notin ViewOf(drink, v)
          BY <2>1, <3>1, <4>1 DEF ViewOf
        <5> QED
          BY <1>2, <5>1 DEF MadeByBuild
      <4>2. CASE InView(drink[d], v)
        <5>1. d \in ViewOf(drink, v)
          BY <1>6, <4>2 DEF ViewOf
        <5>2. /\ Table(made[v])
              /\ IdsOf(made[v]) = IdsOf(rows[v]) \cup BuildList(rows[v], d, v)
              /\ Good(drink, v, made[v], C)
          BY <2>1, <3>1, <4>2
        <5>3. /\ BuildList(rows[v], d, v) \subseteq DOMAIN drink
              /\ d \in BuildList(rows[v], d, v)
              /\ \A x \in BuildList(rows[v], d, v) : x <= d
          BY <5>1, BuildListFacts
        <5> QED
          BY <1>2, <5>2, <5>3 DEF MadeByBuild
      <4> QED
        BY <4>1, <4>2
    <3> QED
      BY <3>1, <3>2
  <2> QED
    BY <2>2, <2>3
<1> QED
  BY <1>4, <1>5, <1>6

\* After the rebuild from drink d the rows T are right where they have been as far as K goes;
\* if that has been so before d and C has all drinks, all from d on have rows.
MadeByRebuild(T, d, v, C, K) ==
  /\ Table(T) /\ IdsOf(T) \subseteq DOMAIN drink
  /\ Good(drink, v, T, C \cap K)
  /\ \A y \in IdsOf(rows[v]) : y < d => y \in IdsOf(T)
  /\ DOMAIN drink \subseteq C =>
       Good(drink, v, T, C) /\ \A y \in ViewOf(drink, v) : y >= d => y \in IdsOf(T)

\* invalidate leaves rows that are good as far as they were before drink d.
LEMMA InvalidateIsGood ==
  ASSUME DrinksOK, RowsOK, NEW d \in Nat, NEW C, NEW K, NEW v \in View,
         Good(drink, v, rows[v], K), \A y \in C : y < d => y \in K
  PROVE  Good(drink, v, Invalidate(d)[v], C)
<1> DEFINE ds == 1 .. d - 1
<1>1. /\ DOMAIN drink \in SUBSET Nat /\ IsFiniteSet(DOMAIN drink)
      /\ \A x \in DOMAIN drink : x \in Nat /\ 1 <= x
  BY DrinkFacts DEF DrinksOK
<1>2. Invalidate(d)[v] = KeptOf(rows[v], ds)
  BY KeepFacts DEF RowsOK, Invalidate, KeptOf
<1>3. ASSUME NEW y \in ds
      PROVE  /\ y < d /\ SameUpTo(drink, drink, y)
             /\ \A x \in DOMAIN drink : x < y => x \in ds
  <2>1. y \in Nat /\ y < d
    OBVIOUS
  <2>2. SameUpTo(drink, drink, y)
    BY DEF SameUpTo
  <2>3. ASSUME NEW x \in DOMAIN drink, x < y PROVE x \in ds
    <3>1. x \in Nat /\ 1 <= x
      BY <1>1
    <3> QED
      BY <2>1, <2>3, <3>1
  <2> QED
    BY <2>1, <2>2, <2>3
<1>4. PICK D, t, u, dd : D = drink /\ t = rows[v] /\ u = Invalidate(d)[v] /\ dd = ds
  OBVIOUS
<1> HIDE DEF ds
<1>5. \A y \in IdsOf(t) \cap dd \cap C :
        y \in K /\ SameUpTo(D, D, y) /\ \A x \in DOMAIN D : x < y => x \in dd
  BY <1>3, <1>4
<1>6. DOMAIN D \in SUBSET Nat
  BY <1>1, <1>4
<1>7. IsFiniteSet(DOMAIN D)
  BY <1>1, <1>4
<1>8. Good(D, v, t, K)
  BY <1>4
<1>9. u = KeptOf(t, dd)
  BY <1>2, <1>4
<1>10. Good(D, v, u, C)
  BY <1>5, <1>6, <1>7, <1>8, <1>9, GoodStays
<1> QED
  BY <1>4, <1>10

\* What the job of a change makes of the rows of all views.
LEMMA RebuildOutcome ==
  ASSUME DrinksOK, RowsOK, NEW d \in Nat, NEW C, NEW K, Lower(C),
         \A v \in View : Good(drink, v, rows[v], K), \A y \in C : y < d => y \in K,
         NEW made, made = Outcome(RebuildFromId(d))
  PROVE  DOMAIN made = View /\ \A v \in View : MadeByRebuild(made[v], d, v, C, K)
<1> DEFINE table == RebuildFromId(d)
           raised == \E v \in View : table[v].raised
           S == {x \in DOMAIN drink : x >= d}
<1>1. /\ made = IF raised THEN rows ELSE [v \in View |-> table[v].rows]
      /\ DOMAIN rows = View
  BY DEF Outcome, RowsOK
<1>2. \A v \in View : Table(rows[v]) /\ IdsOf(rows[v]) \subseteq DOMAIN drink
  BY DEF RowsOK
<1>3. \A v \in View : Good(drink, v, Invalidate(d)[v], C)
  BY InvalidateIsGood
<1>4. \A v \in View : Rebuilt(table[v], v, d, S, C)
  BY <1>3, RebuildMakes
<1> HIDE DEF table
<1>5. CASE raised
  <2>1. PICK w \in View : table[w].raised
    BY <1>5
  <2>2. Rebuilt(table[w], w, d, S, C)
    BY <1>4
  <2>3. ~(DOMAIN drink \subseteq C)
    BY <2>1, <2>2 DEF Rebuilt
  <2>4. made = rows
    BY <1>1, <1>5
  <2>5. \A v \in View : Good(drink, v, rows[v], C \cap K)
    <3>1. C \cap K \in SUBSET K
      OBVIOUS
    <3> QED
      BY <3>1, GoodForLess
  <2> QED
    BY <1>1, <1>2, <2>3, <2>4, <2>5 DEF MadeByRebuild
<1>6. CASE ~raised
  <2>1. DOMAIN made = View
    BY <1>1, <1>6
  <2>2. ASSUME NEW v \in View PROVE MadeByRebuild(made[v], d, v, C, K)
    <3>1. made[v] = table[v].rows /\ ~table[v].raised
      BY <1>1, <1>6
    <3>2. /\ Table(made[v]) /\ IdsOf(made[v]) \subseteq DOMAIN drink /\ Good(drink, v, made[v], C)
          /\ \A y \in IdsOf(rows[v]) : y < d => y \in IdsOf(made[v])
          /\ \A y \in S : y \in ViewOf(drink, v) => y \in IdsOf(made[v])
      BY <1>4, <3>1 DEF Rebuilt
    <3>3. Good(drink, v, made[v], C \cap K)
      <4>1. C \cap K \in SUBSET C
        OBVIOUS
      <4> QED
        BY <3>2, <4>1, GoodForLess
    <3>4. \A y \in ViewOf(drink, v) : y >= d => y \in S
      BY DEF ViewOf
    <3> HIDE DEF S
    <3> QED
      BY <3>2, <3>3, <3>4 DEF MadeByRebuild
  <2> QED
    BY <2>1, <2>2
<1> QED
  BY <1>5, <1>6

\* Work: after a build its drink has rows in all its views; after the last rebuild that
\* waits, all drinks from its own on have.
LEMMA WorkKeepsInv ==
  ASSUME StatisticsInv, Work
  PROVE  StatisticsInv'
<1>1. Types /\ Shape /\ Apart /\ Order /\ Rebuilds /\ Builds
  BY DEF StatisticsInv
<1>2. /\ lastDrink' = lastDrink /\ drink' = drink /\ changes' = changes /\ open' = open
      /\ queue # << >> /\ queue' = Tail(queue)
  BY DEF Work
<1>3. queue \in Seq(Jobs)
  BY <1>1 DEF Types
<1>4. /\ 1 \in DOMAIN queue /\ Head(queue) = queue[1] /\ queue[1] \in Jobs
      /\ queue' \in Seq(Jobs)
      /\ \A i \in DOMAIN queue' : /\ i + 1 \in DOMAIN queue /\ i \in Nat
                                  /\ queue'[i] = queue[i + 1]
      /\ \A i \in DOMAIN queue : i # 1 => /\ i - 1 \in DOMAIN queue' /\ i \in Nat /\ 1 < i
                                          /\ queue'[i - 1] = queue[i]
  BY <1>2, <1>3, TailFacts
<1>5. PICK job : job = queue[1]
  OBVIOUS
<1>6. PICK d : d = job.drink
  OBVIOUS
<1>7. /\ job.rebuild => rows' = Outcome(RebuildFromId(d))
      /\ ~job.rebuild => rows' = Outcome(BuildForId(d))
  BY <1>4, <1>5, <1>6 DEF Work, Outcome
<1>8. /\ amiss \subseteq amiss' /\ amiss' \subseteq amiss \cup {"missed build", "missed rebuild"}
      /\ job.by # None => amiss' # {} /\ (job.rebuild => "missed rebuild" \in amiss')
  <2> DEFINE way == IF job.rebuild THEN "missed rebuild" ELSE "missed build"
  <2>1. amiss' = IF job.by = None THEN amiss ELSE amiss \cup {way}
    BY <1>4, <1>5 DEF Work
  <2>2. way \in {"missed build", "missed rebuild"} /\ (job.rebuild => way = "missed rebuild")
    OBVIOUS
  <2> HIDE DEF way
  <2> QED
    BY <2>1, <2>2
<1>9. /\ Lower(Clean) /\ Clean \in SUBSET Nat
      /\ DOMAIN drink \in SUBSET DrinkIds /\ DrinkIds \in SUBSET Nat
      /\ DrinksOK /\ RowsOK
      /\ \A i \in DOMAIN queue : queue[i].drink \in Nat /\ queue[i].drink <= lastDrink
  BY <1>1, TypesFacts
<1>10. d \in Nat
  BY <1>4, <1>5, <1>6, <1>9
<1>11. \A q \in Requests : q # None
  BY StatisticsAssumption
<1>12. \A q \in Requests : NewDrink(q)' = NewDrink(q)
  BY <1>2, OthersStay
<1>13. \A i \in DOMAIN queue : \/ queue[i] = job
                               \/ \E j \in DOMAIN queue' : queue'[j] = queue[i]
  BY <1>4, <1>5
<1>14. \A j \in DOMAIN queue' : \E i \in DOMAIN queue : i \in Nat /\ 1 < i /\ queue'[j] = queue[i]
  <2> SUFFICES ASSUME NEW j \in DOMAIN queue'
               PROVE  \E i \in DOMAIN queue : i \in Nat /\ 1 < i /\ queue'[j] = queue[i]
    OBVIOUS
  <2>1. j + 1 \in DOMAIN queue /\ j \in Nat /\ queue'[j] = queue[j + 1]
    BY <1>4
  <2>2. DOMAIN queue = 1 .. Len(queue)
    BY <1>3
  <2>3. j \in 1 .. Len(queue')
    BY <1>4
  <2>4. 1 < j + 1 /\ j + 1 \in Nat
    BY <2>1, <2>3
  <2> QED
    BY <2>1, <2>4
<1>15. /\ Clean \subseteq Clean'
       /\ ~job.rebuild => Clean' = Clean
       /\ job.rebuild => \A x \in Clean : x < d
       /\ \A x \in Clean' : x < d => x \in Clean
       /\ Clean' \subseteq DrinkIds
  <2>1. Clean' = {x \in DrinkIds : \A j \in DOMAIN queue' : queue'[j].rebuild => x < queue'[j].drink}
    BY DEF Clean
  <2> QED
    BY <1>4, <1>5, <1>6, <1>13, <1>14, <2>1 DEF Clean
<1>16. RowsOK'
  <2>1. PICK C : C = {}
    OBVIOUS
  <2>2. /\ Lower(C) /\ \A v \in View : Good(drink, v, rows[v], C)
        /\ \A y \in C : y < d => y \in C
    BY <2>1 DEF Lower, Good
  <2>3. CASE job.rebuild
    <3>1. PICK made : made = Outcome(RebuildFromId(d))
      OBVIOUS
    <3>2. DOMAIN made = View /\ \A v \in View : MadeByRebuild(made[v], d, v, C, C)
      BY <1>9, <1>10, <2>2, <3>1, RebuildOutcome
    <3>3. rows' = made
      BY <1>7, <2>3, <3>1
    <3> QED
      BY <1>2, <3>2, <3>3 DEF RowsOK, MadeByRebuild
  <2>4. CASE ~job.rebuild
    <3>1. PICK made : made = Outcome(BuildForId(d))
      OBVIOUS
    <3>2. DOMAIN made = View /\ \A v \in View : MadeByBuild(made[v], d, v, C)
      <4>1. d \in C => \A v, w \in View :
              d \in ViewOf(drink, v) /\ d \in ViewOf(drink, w) /\ d \in IdsOf(rows[v])
                => d \in IdsOf(rows[w])
        BY <2>1
      <4> QED
        BY <1>9, <2>2, <3>1, <4>1, BuildMakes
    <3>3. rows' = made
      BY <1>7, <2>4, <3>1
    <3> QED
      BY <1>2, <3>2, <3>3 DEF RowsOK, MadeByBuild
  <2> QED
    BY <2>3, <2>4
<1>17. Types'
  <2>1. /\ lastDrink \in 0 .. MaxDrinks /\ changes \in 0 .. MaxChanges
        /\ DrinksOK
        /\ amiss \subseteq {"missed build", "missed rebuild", "disorder"} /\ IsTable(open)
    BY <1>1 DEF Types
  <2>2. DrinksOK'
    BY <1>2, <2>1 DEF DrinksOK
  <2>3. \A i \in DOMAIN queue' : queue'[i].drink <= lastDrink'
    BY <1>2, <1>9, <1>14
  <2>4. amiss' \subseteq {"missed build", "missed rebuild", "disorder"}
    BY <1>8, <2>1
  <2> QED
    BY <1>2, <1>4, <1>16, <2>1, <2>2, <2>3, <2>4 DEF Types
<1>18. Shape' /\ Apart'
  <2>1. Shape'
    BY <1>1, <1>2 DEF Shape
  <2>2. Apart'
    BY <1>1, <1>2, <1>12 DEF Apart
  <2> QED
    BY <2>1, <2>2
<1>19. Order'
  <2> SUFFICES ASSUME "disorder" \notin amiss' PROVE Order'
    BY DEF Order
  <2>1. /\ \A i, j \in DOMAIN queue :
             i < j /\ ~queue[j].rebuild => queue[i].drink < queue[j].drink
        /\ \A q \in Requests : \A y \in NewDrink(q), x \in DOMAIN drink : x < y
        /\ \A q \in Requests : \A y \in NewDrink(q), i \in DOMAIN queue :
             ~open[q].queued => queue[i].drink < y
    BY <1>1, <1>8 DEF Order
  <2>2. ASSUME NEW i \in DOMAIN queue', NEW j \in DOMAIN queue', i < j, ~queue'[j].rebuild
        PROVE  queue'[i].drink < queue'[j].drink
    <3>1. /\ i \in Nat /\ j \in Nat /\ i + 1 \in DOMAIN queue /\ j + 1 \in DOMAIN queue
          /\ queue'[i] = queue[i + 1] /\ queue'[j] = queue[j + 1]
      BY <1>4
    <3>2. i + 1 < j + 1
      BY <2>2, <3>1
    <3> QED
      BY <2>1, <2>2, <3>1, <3>2
  <2>3. \A q \in Requests : \A y \in NewDrink(q)', i \in DOMAIN queue' :
          ~open'[q].queued => queue'[i].drink < y
    BY <1>2, <1>12, <1>14, <2>1
  <2>4. \A q \in Requests : \A y \in NewDrink(q)', x \in DOMAIN drink' : x < y
    BY <1>2, <1>12, <2>1
  <2> QED
    BY <2>2, <2>3, <2>4 DEF Order
<1>20. "disorder" \notin amiss =>
         \A j \in DOMAIN queue' : ~queue'[j].rebuild => d < queue'[j].drink
  <2> SUFFICES ASSUME "disorder" \notin amiss, NEW j \in DOMAIN queue', ~queue'[j].rebuild
               PROVE  d < queue'[j].drink
    OBVIOUS
  <2>1. PICK i \in DOMAIN queue : i \in Nat /\ 1 < i /\ queue'[j] = queue[i]
    BY <1>14
  <2> QED
    BY <1>1, <1>4, <1>5, <1>6, <2>1 DEF Order
<1>21. ASSUME amiss' \subseteq {"missed build"}, job.rebuild
       PROVE  \A v \in View :
                /\ Good(drink, v, rows'[v], Clean')
                /\ \A y \in IdsOf(rows[v]) : y < d => y \in IdsOf(rows'[v])
                /\ \A y \in ViewOf(drink, v) : y \in Clean' /\ y >= d => y \in IdsOf(rows'[v])
  <2>1. \A v \in View : Good(drink, v, rows[v], Clean)
    BY <1>1, <1>8, <1>21 DEF Rebuilds, RowsAreGood
  <2>2. PICK made, K : made = Outcome(RebuildFromId(d)) /\ K = Clean
    OBVIOUS
  <2>3. rows' = made
    BY <1>7, <1>21, <2>2
  <2>4. CASE \A x \in Clean' : x < d
    <3>1. Clean' = Clean
      BY <1>15, <2>4
    <3>2. /\ Lower(K) /\ \A v \in View : Good(drink, v, rows[v], K)
          /\ \A y \in K : y < d => y \in K
      BY <1>9, <2>1, <2>2
    <3>3. \A v \in View : MadeByRebuild(made[v], d, v, K, K)
      BY <1>9, <1>10, <2>2, <3>2, RebuildOutcome
    <3>4. \A y \in Clean' : y \in Nat /\ ~(y >= d)
      <4>1. \A y \in Clean' : y \in Nat /\ y < d
        BY <1>9, <2>4, <3>1
      <4> QED
        BY <1>10, <4>1
    <3>5. K \cap K = Clean'
      BY <2>2, <3>1
    <3>6. \A v \in View : Good(drink, v, made[v], Clean')
      BY <3>3, <3>5 DEF MadeByRebuild
    <3> QED
      BY <2>3, <3>3, <3>4, <3>6 DEF MadeByRebuild
  <2>5. CASE \E x \in Clean' : ~(x < d)
    <3>1. PICK x \in Clean' : ~(x < d)
      BY <2>5
    <3>2. x \in Nat /\ d <= x
      BY <1>9, <1>10, <1>15, <3>1
    <3>3. \A j \in DOMAIN queue' : queue'[j].rebuild => x < queue'[j].drink
      BY DEF Clean
    <3>4. \A i \in DOMAIN queue : queue[i].rebuild => d <= queue[i].drink
      <4> SUFFICES ASSUME NEW i \in DOMAIN queue, queue[i].rebuild PROVE d <= queue[i].drink
        OBVIOUS
      <4>1. queue[i].drink \in Nat
        BY <1>9
      <4>2. CASE queue[i] = job
        BY <1>6, <1>10, <4>2
      <4>3. CASE \E j \in DOMAIN queue' : queue'[j] = queue[i]
        <5>1. x < queue[i].drink
          BY <3>3, <4>3
        <5> QED
          BY <1>10, <3>2, <4>1, <5>1
      <4> QED
        BY <1>13, <4>2, <4>3
    <3>5. \A y \in DrinkIds : y < d => y \in Clean
      <4> SUFFICES ASSUME NEW y \in DrinkIds, y < d, NEW i \in DOMAIN queue, queue[i].rebuild
                   PROVE  y < queue[i].drink
        BY DEF Clean
      <4>1. y \in Nat /\ queue[i].drink \in Nat /\ d <= queue[i].drink
        BY <1>9, <3>4
      <4> QED
        BY <1>10, <4>1
    <3>6. PICK C : C = DrinkIds
      OBVIOUS
    <3>7. /\ Lower(C) /\ \A v \in View : Good(drink, v, rows[v], K)
          /\ \A y \in C : y < d => y \in K
      BY <1>9, <2>1, <2>2, <3>5, <3>6 DEF Lower
    <3>8. \A v \in View : MadeByRebuild(made[v], d, v, C, K)
      BY <1>9, <1>10, <2>2, <3>7, RebuildOutcome
    <3>9. /\ \A v \in View : Good(drink, v, made[v], C)
          /\ \A v \in View : \A y \in ViewOf(drink, v) : y >= d => y \in IdsOf(made[v])
          /\ \A v \in View : \A y \in IdsOf(rows[v]) : y < d => y \in IdsOf(made[v])
      BY <1>9, <3>6, <3>8 DEF MadeByRebuild
    <3>10. \A v \in View : Good(drink, v, made[v], Clean')
      <4>1. Clean' \in SUBSET C
        BY <1>15, <3>6
      <4> QED
        BY <3>9, <4>1, GoodForLess
    <3> QED
      BY <2>3, <3>9, <3>10
  <2> QED
    BY <2>4, <2>5
<1>22. ASSUME amiss' \subseteq {"missed build"}, ~job.rebuild
       PROVE  \A v \in View : MadeByBuild(rows'[v], d, v, Clean)
  <2>1. RowsAreGood /\ AllOrNone
    BY <1>1, <1>8, <1>22 DEF Rebuilds
  <2>2. d \in Clean => \A v, w \in View :
          d \in ViewOf(drink, v) /\ d \in ViewOf(drink, w) /\ d \in IdsOf(rows[v])
            => d \in IdsOf(rows[w])
    BY <1>4, <1>5, <1>6, <1>22, <2>1 DEF AllOrNone
  <2>3. PICK made, C : made = Outcome(BuildForId(d)) /\ C = Clean
    OBVIOUS
  <2>4. /\ Lower(C) /\ \A v \in View : Good(drink, v, rows[v], C)
        /\ d \in C => \A v, w \in View :
             d \in ViewOf(drink, v) /\ d \in ViewOf(drink, w) /\ d \in IdsOf(rows[v])
               => d \in IdsOf(rows[w])
    BY <1>9, <2>1, <2>2, <2>3 DEF RowsAreGood
  <2>5. \A v \in View : MadeByBuild(made[v], d, v, C)
    BY <1>9, <2>3, <2>4, BuildMakes
  <2>6. rows' = made
    BY <1>7, <1>22, <2>3
  <2> QED
    BY <2>3, <2>5, <2>6
<1>23. Rebuilds'
  <2> SUFFICES ASSUME amiss' \subseteq {"missed build"} PROVE Rebuilds'
    BY DEF Rebuilds
  <2>1. ChangesHaveJobs /\ RowsAreGood /\ AllOrNone /\ "disorder" \notin amiss
    BY <1>1, <1>8 DEF Rebuilds
  <2>2. ChangesHaveJobs'
    <3> SUFFICES ASSUME NEW q \in Requests, open[q] # None, NewDrink(q) = {}
                 PROVE  \E j \in DOMAIN queue' :
                          /\ queue'[j].by = q /\ queue'[j].rebuild
                          /\ \A x \in Touched(open[q]) : queue'[j].drink <= x
      BY <1>2, <1>12 DEF ChangesHaveJobs
    <3>1. PICK i \in DOMAIN queue : /\ queue[i].by = q /\ queue[i].rebuild
                                    /\ \A x \in Touched(open[q]) : queue[i].drink <= x
      BY <2>1 DEF ChangesHaveJobs
    <3>2. queue[i] # job
      BY <1>8, <1>11, <3>1
    <3> QED
      BY <1>13, <3>1, <3>2
  <2>3. RowsAreGood'
    <3> SUFFICES ASSUME NEW v \in View PROVE Good(drink, v, rows'[v], Clean')
      BY <1>2 DEF RowsAreGood
    <3>1. CASE job.rebuild
      BY <1>21, <3>1
    <3>2. CASE ~job.rebuild
      BY <1>15, <1>22, <3>2 DEF MadeByBuild
    <3> QED
      BY <3>1, <3>2
  <2>4. AllOrNone'
    <3> SUFFICES ASSUME NEW j \in DOMAIN queue',
                        NEW v \in View, NEW w \in View, NEW y, y = queue'[j].drink,
                        ~queue'[j].rebuild, y \in Clean',
                        y \in ViewOf(drink, v), y \in ViewOf(drink, w), y \in IdsOf(rows'[v])
                 PROVE  y \in IdsOf(rows'[w])
      BY <1>2 DEF AllOrNone
    <3>1. d < y /\ y \in Nat
      BY <1>9, <1>14, <1>20, <2>1
    <3>2. CASE job.rebuild
      <4>1. y >= d
        BY <1>10, <3>1, Less, Zenon
      <4> QED
        BY <1>21, <3>2, <4>1
    <3>3. CASE ~job.rebuild
      <4>1. PICK i \in DOMAIN queue : queue'[j] = queue[i]
        BY <1>14
      <4>2. MadeByBuild(rows'[v], d, v, Clean) /\ MadeByBuild(rows'[w], d, w, Clean)
        BY <1>22, <3>3
      <4>3. ~(y <= d)
        BY <1>10, <3>1, Less, Zenon
      <4>4. y \in IdsOf(rows[v])
        BY <4>2, <4>3 DEF MadeByBuild
      <4>5. y \in IdsOf(rows[w])
        BY <1>15, <2>1, <3>3, <4>1, <4>4 DEF AllOrNone
      <4> QED
        BY <4>2, <4>5 DEF MadeByBuild
    <3> QED
      BY <3>2, <3>3
  <2> QED
    BY <2>2, <2>3, <2>4 DEF Rebuilds
<1>24. Builds'
  <2> SUFFICES ASSUME amiss' = {} PROVE Builds'
    BY DEF Builds
  <2>1. PoursHaveJobs /\ MissingHaveJobs
    BY <1>1, <1>8 DEF Builds
  <2>2. PoursHaveJobs'
    <3> SUFFICES ASSUME NEW q \in Requests, NEW y \in NewDrink(q), open[q].queued
                 PROVE  \E j \in DOMAIN queue' : /\ queue'[j].by = q /\ ~queue'[j].rebuild
                                                 /\ queue'[j].drink = y
      BY <1>2, <1>12 DEF PoursHaveJobs
    <3>1. PICK i \in DOMAIN queue : /\ queue[i].by = q /\ ~queue[i].rebuild
                                    /\ queue[i].drink = y
      BY <2>1 DEF PoursHaveJobs
    <3>2. queue[i] # job
      BY <1>8, <1>11, <3>1
    <3> QED
      BY <1>13, <3>1, <3>2
  <2>3. MissingHaveJobs'
    <3> SUFFICES ASSUME NEW v \in View, NEW x \in ViewOf(drink, v), x \in Clean',
                        x \notin IdsOf(rows'[v])
                 PROVE  \E j \in DOMAIN queue' : ~queue'[j].rebuild /\ queue'[j].drink = x
      BY <1>2 DEF MissingHaveJobs
    <3>1. x \in Clean /\ x \notin IdsOf(rows[v])
      <4>1. CASE job.rebuild
        <5>1. x \in Nat
          BY <1>9, <1>15
        <5>2. ~(x >= d)
          BY <1>21, <4>1
        <5>3. x < d
          BY <1>10, <5>1, <5>2
        <5> QED
          BY <1>15, <1>21, <4>1, <5>3
      <4>2. CASE ~job.rebuild
        BY <1>15, <1>22, <4>2 DEF MadeByBuild
      <4> QED
        BY <4>1, <4>2
    <3>2. PICK i \in DOMAIN queue : ~queue[i].rebuild /\ queue[i].drink = x
      BY <2>1, <3>1 DEF MissingHaveJobs
    <3>3. queue[i] # job
      <4> SUFFICES ASSUME queue[i] = job PROVE FALSE
        OBVIOUS
      <4>1. ~job.rebuild /\ x = d
        BY <1>6, <3>2
      <4>2. MadeByBuild(rows'[v], d, v, Clean)
        BY <1>22, <4>1
      <4> QED
        BY <3>1, <4>1, <4>2 DEF MadeByBuild
    <3> QED
      BY <1>13, <3>2, <3>3
  <2> QED
    BY <2>2, <2>3 DEF Builds
<1> QED
  BY <1>17, <1>18, <1>19, <1>23, <1>24 DEF StatisticsInv

-----------------------------------------------------------------------------
(* The invariant holds *)

\* There are no drinks, jobs or rows.
LEMMA InitKeepsInv ==
  ASSUME Init
  PROVE  StatisticsInv
<1>1. /\ drink = << >> /\ lastDrink = 0 /\ changes = 0 /\ queue = << >> /\ amiss = {}
      /\ open = [p \in Requests |-> None] /\ rows = [v \in View |-> << >>]
  BY DEF Init
<1>2. DOMAIN drink = {} /\ DOMAIN queue = {} /\ \A v \in View : DOMAIN rows[v] = {}
  BY <1>1
<1>3. \A p \in Requests : open[p] = None
  BY <1>1
<1>4. \A p \in Requests : NewDrink(p) = {}
  BY <1>3 DEF NewDrink
<1>5. DrinksOK
  BY <1>1, <1>2 DEF DrinksOK
<1>6. RowsOK
  <2>1. DOMAIN rows = View
    BY <1>1
  <2>2. \A v \in View : Table(rows[v])
    BY <1>2 DEF Table
  <2>3. \A v \in View : IdsOf(rows[v]) = {}
    BY <1>2 DEF IdsOf
  <2> QED
    BY <2>1, <2>2, <2>3 DEF RowsOK
<1>7. Types
  <2>1. lastDrink \in 0 .. MaxDrinks /\ changes \in 0 .. MaxChanges
    BY <1>1, StatisticsAssumption
  <2>2. queue \in Seq(Jobs)
    BY <1>1
  <2>3. IsTable(open)
    BY <1>1 DEF IsTable
  <2> QED
    BY <1>1, <1>2, <1>5, <1>6, <2>1, <2>2, <2>3 DEF Types
<1>8. Shape /\ Apart
  BY <1>3 DEF Shape, Apart
<1>9. Order
  BY <1>2, <1>4 DEF Order
<1>10. Rebuilds
  <2>1. ChangesHaveJobs
    BY <1>3 DEF ChangesHaveJobs
  <2>2. RowsAreGood
    BY <1>2 DEF RowsAreGood, Good
  <2>3. AllOrNone
    BY <1>2 DEF AllOrNone
  <2> QED
    BY <2>1, <2>2, <2>3 DEF Rebuilds
<1>11. Builds
  <2>1. PoursHaveJobs
    BY <1>4 DEF PoursHaveJobs
  <2>2. MissingHaveJobs
    BY <1>2 DEF MissingHaveJobs, ViewOf
  <2> QED
    BY <2>1, <2>2 DEF Builds
<1> QED
  BY <1>7, <1>8, <1>9, <1>10, <1>11 DEF StatisticsInv

\* Nothing changes.
LEMMA StutterKeepsInv ==
  ASSUME StatisticsInv, UNCHANGED vars
  PROVE  StatisticsInv'
<1>1. /\ drink' = drink /\ lastDrink' = lastDrink /\ changes' = changes /\ open' = open
      /\ queue' = queue /\ rows' = rows /\ amiss' = amiss
  BY DEF vars
<1>2. Clean' = Clean
  BY <1>1 DEF Clean
<1>3. \A p \in Requests : NewDrink(p)' = NewDrink(p)
  BY <1>1, OthersStay
<1>4. Types'
  BY <1>1 DEF StatisticsInv, Types, DrinksOK, RowsOK
<1>5. Shape' /\ Apart' /\ Order'
  BY <1>1, <1>3 DEF StatisticsInv, Shape, Apart, Order
<1>6. Rebuilds'
  BY <1>1, <1>2, <1>3
     DEF StatisticsInv, Rebuilds, ChangesHaveJobs, RowsAreGood, AllOrNone
<1>7. Builds'
  BY <1>1, <1>2, <1>3 DEF StatisticsInv, Builds, PoursHaveJobs, MissingHaveJobs
<1> QED
  BY <1>4, <1>5, <1>6, <1>7 DEF StatisticsInv

\* Every step.
LEMMA NextKeepsInv ==
  ASSUME StatisticsInv, [Next]_vars
  PROVE  StatisticsInv'
<1>1. ASSUME NEW p \in Requests, Pour(p) PROVE StatisticsInv'
  BY <1>1, PourKeepsInv
<1>2. ASSUME NEW p \in Requests, PourQueued(p) PROVE StatisticsInv'
  BY <1>2, PourQueuedKeepsInv
<1>3. ASSUME NEW p \in Requests, NEW d \in DOMAIN drink,
             Reassign(p, d) \/ SetVolume(p, d) \/ CancelDrink(p, d)
      PROVE  StatisticsInv'
  BY <1>3, DrinkChangesKeepInv
<1>4. ASSUME NEW p \in Requests, NEW k \in Kegs, CancelKeg(p, k) PROVE StatisticsInv'
  BY <1>4, CancelKegKeepsInv
<1>5. ASSUME NEW p \in Requests, Commit(p) PROVE StatisticsInv'
  BY <1>5, CommitKeepsInv
<1>6. ASSUME NEW p \in Requests, RollBack(p) PROVE StatisticsInv'
  BY <1>6, RollBackKeepsInv
<1>7. CASE SaveSettings
  BY <1>7, SaveSettingsKeepsInv
<1>8. CASE Work
  BY <1>8, WorkKeepsInv
<1>9. CASE UNCHANGED vars
  BY <1>9, StutterKeepsInv
<1> QED
  BY <1>1, <1>2, <1>3, <1>4, <1>5, <1>6, <1>7, <1>8, <1>9 DEF Next

\* In every state the rows of all views are right as far as no rebuild waits, and what is
\* missing or wrong has its job in the queue, unless a job was lost or ran too early.
THEOREM StatisticsInvariance == Spec => []StatisticsInv
<1>1. Init => StatisticsInv
  BY InitKeepsInv
<1>2. StatisticsInv /\ [Next]_vars => StatisticsInv'
  BY NextKeepsInv
<1> QED
  BY <1>1, <1>2, PTL DEF Spec

-----------------------------------------------------------------------------
(* What follows once all jobs are done *)

\* A view with good rows for all its drinks is current.
LEMMA CurrentIf ==
  ASSUME DrinksOK, RowsOK, NEW v \in View, NEW C, DOMAIN drink \subseteq C,
         Good(drink, v, rows[v], C), ViewOf(drink, v) \subseteq IdsOf(rows[v])
  PROVE  /\ Current(v)
         /\ DOMAIN rows[v] # {} =>
              Latest(rows[v]).largest.session \in {drink[d].session : d \in DOMAIN drink}
<1> DEFINE t == rows[v]
           ds == ViewOf(drink, v)
           last == Max(DOMAIN t)
           firsts == {t[i].drink : i \in {j \in DOMAIN t : t[j].first}}
<1>1. DrinksIn(v) = ds
  BY DEF DrinksIn, ViewOf
<1>2. DOMAIN drink \in SUBSET Nat /\ ds \in SUBSET DOMAIN drink /\ ds \in SUBSET Nat
  BY DrinkFacts DEF ViewOf
<1>3. \A i \in DOMAIN t : /\ i \in Nat /\ t[i].drink \in ds /\ RowIsRight(drink, v, t[i])
  <2>1. \A i \in DOMAIN t : i \in Nat /\ t[i].drink \in DOMAIN drink
    BY DEF RowsOK, Table, IdsOf
  <2> QED
    BY <2>1 DEF Good, RowIsRight
<1>4. \A i, j \in DOMAIN t : i < j => t[i].drink < t[j].drink
  BY <1>2, <1>3 DEF Good
<1>5. \A x \in ds : \E i \in DOMAIN t : t[i].drink = x
  BY DEF IdsOf
<1>6. CASE DOMAIN t = {}
  <2>1. ds = {}
    BY <1>5, <1>6
  <2> QED
    BY <1>1, <1>6, <2>1 DEF Current
<1>7. CASE DOMAIN t # {}
  <2>1. PICK n \in Nat : \A i \in DOMAIN t : i <= n
    BY DEF RowsOK, Table
  <2>2. last \in DOMAIN t /\ \A i \in DOMAIN t : i <= last
    <3>1. DOMAIN t \in SUBSET Nat
      BY <1>3
    <3> HIDE DEF t
    <3> QED
      BY <1>7, <2>1, <3>1, MaxFacts
  <2>3. PICK m : m = last
    OBVIOUS
  <2>4. PICK y : y = t[m].drink
    OBVIOUS
  <2>5. m \in DOMAIN t /\ m \in Nat /\ y \in ds /\ y \in Nat /\ RowIsRight(drink, v, t[m])
    BY <1>2, <1>3, <2>2, <2>3, <2>4
  <2>6. \A i \in DOMAIN t : t[i].drink <= y
    <3> SUFFICES ASSUME NEW i \in DOMAIN t PROVE t[i].drink <= y
      OBVIOUS
    <3>1. i \in Nat /\ t[i].drink \in Nat /\ i <= m
      BY <1>2, <1>3, <2>2, <2>3
    <3>2. CASE i = m
      BY <2>4, <2>5, <3>2
    <3>3. CASE i < m
      <4>1. t[i].drink < y
        BY <1>4, <2>4, <2>5, <3>3
      <4> QED
        BY <2>5, <3>1, <4>1
    <3> QED
      BY <2>5, <3>1, <3>2, <3>3
  <2>7. UpTo(drink, v, y) = ds
    BY <1>5, <2>6 DEF UpTo
  <2>8. Latest(t) = t[m]
    BY <2>3 DEF Latest
  <2>9. Latest(t).stats = StatsOf(drink, ds)
    BY <2>4, <2>5, <2>7, <2>8 DEF RowIsRight
  <2>10. Latest(t).largest.session \in {drink[d].session : d \in DOMAIN drink}
    <3>1. Latest(t).largest.session \in {drink[x].session : x \in ds}
      BY <2>4, <2>5, <2>7, <2>8 DEF RowIsRight
    <3> QED
      BY <1>2, <3>1
  <2>11. firsts = {Min(ds)}
    <3>1. Min(ds) \in ds /\ \A x \in ds : Min(ds) <= x
      <4>1. ds # {}
        BY <2>5
      <4> HIDE DEF ds
      <4> QED
        BY <1>2, <4>1, MinFacts
    <3>2. PICK least : least = Min(ds)
      OBVIOUS
    <3>3. least \in Nat /\ least \in ds /\ \A x \in ds : least <= x
      BY <1>2, <3>1, <3>2
    <3>4. \A i \in DOMAIN t : t[i].first <=> t[i].drink = least
      <4> SUFFICES ASSUME NEW i \in DOMAIN t PROVE t[i].first <=> t[i].drink = least
        OBVIOUS
      <4>1. PICK z : z = t[i].drink
        OBVIOUS
      <4>2. z \in ds /\ z \in Nat /\ (t[i].first <=> \A x \in ds : z <= x)
        BY <1>2, <1>3, <4>1 DEF RowIsRight
      <4>3. (\A x \in ds : z <= x) <=> z = least
        BY <3>3, <4>2
      <4> QED
        BY <4>1, <4>2, <4>3
    <3>5. PICK j \in DOMAIN t : t[j].drink = least
      BY <1>5, <3>3
    <3>6. firsts = {least}
      BY <3>4, <3>5
    <3> QED
      BY <3>2, <3>6
  <2>12. ds # {}
    BY <2>5
  <2>13. Current(v)
    <3> HIDE DEF t, ds, last
    <3>1. rows[v] = t
      BY DEF t
    <3> QED
      BY <1>1, <1>7, <2>9, <2>11, <2>12, <3>1 DEF Current
  <2> QED
    BY <2>10, <2>13
<1> QED
  BY <1>6, <1>7

\* The empty queue has no jobs.
LEMMA NothingInEmpty == DOMAIN << >> = {}
OBVIOUS

\* Without jobs no drink waits for a rebuild.
LEMMA SettledFacts ==
  ASSUME StatisticsInv, Settled, amiss \subseteq {"missed build"}
  PROVE  /\ DrinksOK /\ RowsOK /\ DOMAIN drink \subseteq Clean /\ DOMAIN queue = {}
         /\ \A v \in View : Good(drink, v, rows[v], Clean)
<1>1. DOMAIN queue = {}
  <2>1. queue = << >>
    BY Zenon DEF Settled
  <2> QED
    BY <2>1, NothingInEmpty, Zenon
<1>2. Clean = DrinkIds
  BY <1>1 DEF Clean
<1>3. DrinksOK /\ RowsOK /\ DOMAIN drink \in SUBSET DrinkIds
  BY TypesFacts DEF StatisticsInv
<1>4. \A v \in View : Good(drink, v, rows[v], Clean)
  BY DEF StatisticsInv, Rebuilds, RowsAreGood
<1> QED
  BY <1>1, <1>2, <1>3, <1>4

\* With nothing amiss all views are current.
LEMMA AllAreCurrent ==
  ASSUME StatisticsInv, Settled, amiss = {}, NEW v \in View
  PROVE  /\ Current(v)
         /\ DOMAIN rows[v] # {} =>
              Latest(rows[v]).largest.session \in {drink[d].session : d \in DOMAIN drink}
<1>1. /\ DrinksOK /\ RowsOK /\ DOMAIN drink \subseteq Clean /\ DOMAIN queue = {}
      /\ Good(drink, v, rows[v], Clean)
  BY SettledFacts
<1>2. MissingHaveJobs
  BY DEF StatisticsInv, Builds
<1>3. ViewOf(drink, v) \subseteq IdsOf(rows[v])
  BY <1>1, <1>2 DEF MissingHaveJobs, ViewOf
<1> QED
  BY <1>1, <1>3, CurrentIf

\* The rows have their types, and are for drinks there are.
THEOREM StatisticsTypeCorrect == Spec => []TypeOK
<1>1. ASSUME StatisticsInv PROVE TypeOK
  <2>1. Types
    BY <1>1 DEF StatisticsInv
  <2>2. /\ lastDrink \in 0 .. MaxDrinks /\ changes \in 0 .. MaxChanges /\ DrinksOK /\ RowsOK
        /\ amiss \subseteq {"missed build", "missed rebuild", "disorder"}
    BY <2>1 DEF Types
  <2>3. \A i \in DOMAIN queue : queue[i] \in [drink : DrinkIds, rebuild : BOOLEAN,
                                             by : Requests \cup {None}]
    BY <2>1, TypesFacts DEF Jobs
  <2>4. /\ DOMAIN drink \subseteq 1 .. lastDrink
        /\ \A d \in DOMAIN drink : drink[d] \in DrinkRow
    BY <2>2 DEF DrinksOK
  <2>5. /\ DOMAIN rows = View
        /\ \A v \in View : DOMAIN rows[v] \subseteq Nat /\ IdsOf(rows[v]) \subseteq DOMAIN drink
    BY <2>2 DEF RowsOK, Table
  <2> QED
    BY <2>2, <2>3, <2>4, <2>5 DEF TypeOK
<1>2. StatisticsInv => TypeOK
  BY <1>1
<1> QED
  BY <1>2, StatisticsInvariance, PTL

\* When all jobs are done and none was lost, early or out of order, the latest statistics
\* of every view are those of its drinks by definition: what StatsBuilder.build adds up
\* drink by drink, invalidates and rebuilds comes to the same.
THEOREM StatisticsFollowDrinks == Spec => []StatsFollowDrinks
<1>1. StatisticsInv => StatsFollowDrinks
  BY AllAreCurrent DEF StatsFollowDrinks
<1> QED
  BY <1>1, StatisticsInvariance, PTL

\* Builds that were lost, or ran before their drink was there, are made up for by the
\* build list of any later drink of the view.
THEOREM MissedPoursMadeUp == Spec => []MissedPoursAreMadeUp
<1>1. ASSUME StatisticsInv, Settled, amiss \subseteq {"missed build"}, NEW v \in View,
             DrinksIn(v) # {}, Max(DrinksIn(v)) \in IdsOf(rows[v])
      PROVE  Current(v)
  <2>1. /\ DrinksOK /\ RowsOK /\ DOMAIN drink \subseteq Clean
        /\ Good(drink, v, rows[v], Clean)
    BY <1>1, SettledFacts
  <2>2. PICK ds, m : ds = DrinksIn(v) /\ m = Max(ds)
    OBVIOUS
  <2>3. ViewOf(drink, v) = ds /\ ds \in SUBSET DOMAIN drink /\ DOMAIN drink \in SUBSET Nat
    BY <2>1, <2>2, DrinkFacts DEF DrinksIn, ViewOf
  <2>4. m \in ds /\ \A x \in ds : x <= m
    <3>1. lastDrink \in Nat /\ DOMAIN drink \subseteq 1 .. lastDrink
      BY <2>1 DEF DrinksOK
    <3>2. ds \in SUBSET Nat /\ \A x \in ds : x <= lastDrink
      BY <2>3, <3>1
    <3>3. ds # {}
      BY <1>1, <2>2
    <3> QED
      BY <2>2, <3>1, <3>2, <3>3, MaxFacts
  <2>5. PICK i \in DOMAIN rows[v] : rows[v][i].drink = m
    BY <1>1, <2>2 DEF IdsOf
  <2>6. ASSUME NEW x \in ds PROVE x \in IdsOf(rows[v])
    <3>1. x \in Nat /\ m \in Nat /\ x <= m
      BY <2>3, <2>4
    <3>2. CASE x = m
      BY <2>5, <3>2 DEF IdsOf
    <3>3. CASE x < m
      <4>1. rows[v][i].drink \in Clean /\ x \in ViewOf(drink, v) /\ x < rows[v][i].drink
        BY <2>1, <2>3, <2>4, <2>5, <3>3
      <4> QED
        BY <2>1, <4>1 DEF Good
    <3> QED
      BY <3>1, <3>2, <3>3
  <2>7. ViewOf(drink, v) \subseteq IdsOf(rows[v])
    BY <2>3, <2>6
  <2> QED
    BY <2>1, <2>7, CurrentIf
<1>2. StatisticsInv => MissedPoursAreMadeUp
  BY <1>1 DEF MissedPoursAreMadeUp
<1> QED
  BY <1>2, StatisticsInvariance, PTL

\* No drink has two rows in a view, those that unique_together does not protect included,
\* as long as no rebuild was lost or early: a row that is there already makes the job raise
\* in the view of its drinker, keg and session, and then the job changes nothing.
THEOREM StatisticsAreUnique == Spec => []RowsAreUnique
<1>1. ASSUME StatisticsInv, Settled, amiss \subseteq {"missed build"}, NEW v \in View,
             NEW i \in DOMAIN rows[v], NEW j \in DOMAIN rows[v], i # j
      PROVE  rows[v][i].drink # rows[v][j].drink
  <2>1. /\ DrinksOK /\ RowsOK /\ DOMAIN drink \subseteq Clean
        /\ Good(drink, v, rows[v], Clean)
    BY <1>1, SettledFacts
  <2>2. /\ i \in Nat /\ j \in Nat
        /\ \A k \in DOMAIN rows[v] : /\ rows[v][k].drink \in DOMAIN drink
                                     /\ rows[v][k].drink \in Nat
    BY <2>1, DrinkFacts DEF RowsOK, Table, IdsOf
  <2>3. rows[v][i].drink \in Clean /\ rows[v][j].drink \in Clean
    BY <2>1, <2>2
  <2>4. \A k, l \in DOMAIN rows[v] :
          k < l /\ rows[v][k].drink \in Clean /\ rows[v][l].drink \in Clean =>
            rows[v][k].drink < rows[v][l].drink
    BY <2>1 DEF Good
  <2>5. PICK a, b : a = rows[v][i].drink /\ b = rows[v][j].drink
    OBVIOUS
  <2>6. /\ i < j => a < b
        /\ j < i => b < a
    <3>1. i < j => rows[v][i].drink < rows[v][j].drink
      BY <2>3, <2>4, Zenon
    <3>2. j < i => rows[v][j].drink < rows[v][i].drink
      BY <2>3, <2>4, Zenon
    <3> QED
      BY <2>5, <3>1, <3>2
  <2>7. a \in Nat /\ b \in Nat
    BY <2>2, <2>5
  <2>8. i < j \/ j < i
    BY <1>1, <2>2, Different, Zenon
  <2> QED
    BY <2>5, <2>6, <2>7, <2>8
<1>2. StatisticsInv => RowsAreUnique
  BY <1>1 DEF RowsAreUnique
<1> QED
  BY <1>2, StatisticsInvariance, PTL

\* The session that the latest statistics call the largest has drinks, so its row is there
\* when the page of a drinker loads it.
THEOREM LargestSessionHasDrinks == Spec => []LargestSessionExists
<1>1. StatisticsInv => LargestSessionExists
  BY AllAreCurrent DEF LargestSessionExists
<1> QED
  BY <1>1, StatisticsInvariance, PTL

==============================================================================
