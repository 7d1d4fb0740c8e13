--------------------------- MODULE Volumes_proofs ---------------------------
(***************************************************************************)
(* What is computed from volumes.                                          *)
(*                                                                         *)
(* First, sums: VolumeOf is a choice of a recursively defined function     *)
(* (FoldSet), which has to be shown to exist and to be the same over every *)
(* set it is defined on.  That is an induction over finite sets, done here *)
(* with a least counterexample: a nonempty collection of finite sets has a *)
(* smallest member (LeastSubset).  The lemmas that matter are NoVolume,    *)
(* SameVolume, VolumeIsNat and VolumeOfOne: any drink may be taken out of  *)
(* the sum, not only the one the fold happens to take first.               *)
(*                                                                         *)
(* Then, the least and the greatest of a set, and the pictures and         *)
(* warnings of KegLevels.                                                  *)
(***************************************************************************)
EXTENDS VolumeSums, KegLevels, FiniteSetTheorems, TLAPS

-----------------------------------------------------------------------------
(* Sums *)

\* Among subsets of a finite set there is one without a smaller one: induction over
\* finite sets, by a least counterexample.
LEMMA LeastSubset ==
  ASSUME NEW S, IsFiniteSet(S), NEW B \in SUBSET (SUBSET S), B # {}
  PROVE  \E T \in B : \A U \in SUBSET T : U # T => U \notin B
<1>1. B \subseteq FiniteSubsetsOf(S)
  BY FS_Subset DEF FiniteSubsetsOf
<1>2. PICK T \in B : \A U \in B : ~(<<U, T>> \in StrictSubsetOrdering(S))
  BY <1>1, FS_StrictSubsetOrderingWellFounded, WFMin
<1>3. ASSUME NEW U \in SUBSET T, U # T, U \in B PROVE FALSE
  BY <1>2, <1>3 DEF StrictSubsetOrdering
<1> QED
  BY <1>3

\* The element that a fold takes next.
First(S) == CHOOSE x \in S : TRUE

\* f adds up the volumes of every subset of S, as the fold does.
AddsUp(f, D, S) ==
  f = [s \in SUBSET S |-> IF s = {} THEN 0 ELSE D[First(s)].volume + f[s \ {First(s)}]]

LEMMA FirstIsElement == ASSUME NEW S, S # {} PROVE First(S) \in S
BY DEF First

LEMMA VolumeIsChosen ==
  ASSUME NEW D, NEW S
  PROVE  VolumeOf(D, S) = (CHOOSE f : AddsUp(f, D, S))[S]
BY DEF VolumeOf, MapThenSumSet, MapThenFoldSet, AddsUp, First

LEMMA AddsUpFacts ==
  ASSUME NEW D, NEW S, NEW f, AddsUp(f, D, S), NEW s \in SUBSET S
  PROVE  f[s] = IF s = {} THEN 0 ELSE D[First(s)].volume + f[s \ {First(s)}]
BY DEF AddsUp

\* Two such functions agree where both are defined.
LEMMA AddsUpOnce ==
  ASSUME NEW D, NEW E, NEW S, IsFiniteSet(S), NEW T \in SUBSET S,
         \A d \in T : D[d].volume = E[d].volume,
         NEW f, NEW g, AddsUp(f, D, S), AddsUp(g, E, T)
  PROVE  f[T] = g[T]
<1> DEFINE B == {U \in SUBSET T : f[U] # g[U]}
<1>1. IsFiniteSet(T)
  BY FS_Subset
<1>2. SUFFICES ASSUME B # {} PROVE FALSE
  OBVIOUS
<1>3. PICK U \in B : \A V \in SUBSET U : V # U => V \notin B
  <2>1. B \in SUBSET (SUBSET T)
    OBVIOUS
  <2> HIDE DEF B
  <2> QED
    BY <1>1, <1>2, <2>1, LeastSubset
<1>4. U \in SUBSET S /\ U \in SUBSET T /\ f[U] # g[U]
  OBVIOUS
<1> DEFINE V == U \ {First(U)}
<1>5. U # {}
  <2>1. f[{}] = 0 /\ g[{}] = 0
    BY AddsUpFacts
  <2> QED
    BY <1>4, <2>1
<1>6. First(U) \in U /\ V \in SUBSET U /\ V # U
  BY <1>5, FirstIsElement
<1>7. f[V] = g[V]
  BY <1>3, <1>4, <1>6
<1>8. D[First(U)].volume = E[First(U)].volume
  BY <1>4, <1>6
<1> QED
  BY <1>4, <1>5, <1>7, <1>8, AddsUpFacts

LEMMA AddsUpAlike ==
  ASSUME NEW D, NEW S, IsFiniteSet(S), NEW T \in SUBSET S,
         NEW f, NEW g, AddsUp(f, D, S), AddsUp(g, D, T)
  PROVE  f[T] = g[T]
<1>1. \A E : (\A d \in T : D[d].volume = E[d].volume) /\ AddsUp(g, E, T) => f[T] = g[T]
  BY AddsUpOnce
<1> QED
  BY <1>1

\* There is one for every finite set.
LEMMA AddsUpExists ==
  ASSUME NEW D, NEW S, IsFiniteSet(S)
  PROVE  \E f : AddsUp(f, D, S)
<1> DEFINE B == {T \in SUBSET S : ~\E f : AddsUp(f, D, T)}
<1>1. SUFFICES ASSUME B # {} PROVE FALSE
  OBVIOUS
<1>2. PICK T \in B : \A U \in SUBSET T : U # T => U \notin B
  <2>1. B \in SUBSET (SUBSET S)
    OBVIOUS
  <2> HIDE DEF B
  <2> QED
    BY <1>1, <2>1, LeastSubset
<1>3. IsFiniteSet(T)
  BY <1>2, FS_Subset
<1>4. \A U \in SUBSET T : U # T => AddsUp(CHOOSE f : AddsUp(f, D, U), D, U)
  BY <1>2
<1> DEFINE v(U) == IF U = {} THEN 0
                   ELSE D[First(U)].volume + VolumeOf(D, U \ {First(U)})
           h == [U \in SUBSET T |-> v(U)]
<1>5. \A U \in SUBSET T : U # T => VolumeOf(D, U) = v(U)
  <2> SUFFICES ASSUME NEW U \in SUBSET T, U # T PROVE VolumeOf(D, U) = v(U)
    OBVIOUS
  <2> DEFINE f == CHOOSE g : AddsUp(g, D, U)
             W == U \ {First(U)}
             g == CHOOSE x : AddsUp(x, D, W)
  <2>1. AddsUp(f, D, U) /\ VolumeOf(D, U) = f[U]
    BY <1>4, VolumeIsChosen
  <2>2. CASE U = {}
    BY <2>1, <2>2, AddsUpFacts
  <2>3. CASE U # {}
    <3>1. W \in SUBSET U /\ W # T /\ W \in SUBSET T
      BY <2>3, FirstIsElement
    <3>2. AddsUp(g, D, W) /\ VolumeOf(D, W) = g[W]
      BY <1>4, <3>1, VolumeIsChosen
    <3>3. IsFiniteSet(U)
      BY <1>3, FS_Subset
    <3> HIDE DEF f, g, W
    <3>4. f[W] = g[W]
      BY <2>1, <3>1, <3>2, <3>3, AddsUpAlike
    <3>5. f[U] = D[First(U)].volume + f[W]
      BY <2>1, <2>3, AddsUpFacts DEF W
    <3> QED
      BY <2>1, <2>3, <3>2, <3>4, <3>5 DEF W
  <2> QED
    BY <2>2, <2>3
<1>6. \A U \in SUBSET T : U # {} => U \ {First(U)} \in SUBSET T /\ U \ {First(U)} # T
  BY FirstIsElement
<1> HIDE DEF v
<1>7. \A U \in SUBSET T : h[U] = IF U = {} THEN 0
                                 ELSE D[First(U)].volume + h[U \ {First(U)}]
  BY <1>5, <1>6 DEF v
<1>8. AddsUp(h, D, T)
  BY <1>7 DEF AddsUp
<1> QED
  BY <1>2, <1>8

LEMMA VolumeAddsUp ==
  ASSUME NEW D, NEW S, IsFiniteSet(S)
  PROVE  \E f : AddsUp(f, D, S) /\ VolumeOf(D, S) = f[S]
BY AddsUpExists, VolumeIsChosen

-----------------------------------------------------------------------------

LEMMA NoVolume == ASSUME NEW D PROVE VolumeOf(D, {}) = 0
BY VolumeAddsUp, AddsUpFacts, FS_EmptySet

\* Tables that agree on the volumes of S agree on its sum.
LEMMA SameVolume ==
  ASSUME NEW D, NEW E, NEW S, IsFiniteSet(S), \A d \in S : D[d].volume = E[d].volume
  PROVE  VolumeOf(D, S) = VolumeOf(E, S)
<1>1. S \in SUBSET S
  OBVIOUS
<1>2. PICK f : AddsUp(f, D, S) /\ VolumeOf(D, S) = f[S]
  BY VolumeAddsUp
<1>3. PICK g : AddsUp(g, E, S) /\ VolumeOf(E, S) = g[S]
  BY VolumeAddsUp
<1> QED
  BY <1>1, <1>2, <1>3, AddsUpOnce

LEMMA VolumeOfFirst ==
  ASSUME NEW D, NEW S, IsFiniteSet(S), S # {}
  PROVE  VolumeOf(D, S) = D[First(S)].volume + VolumeOf(D, S \ {First(S)})
<1> DEFINE T == S \ {First(S)}
<1>1. PICK f : AddsUp(f, D, S) /\ VolumeOf(D, S) = f[S]
  BY VolumeAddsUp
<1>2. IsFiniteSet(T) /\ T \in SUBSET S
  BY FS_Subset
<1>3. PICK g : AddsUp(g, D, T) /\ VolumeOf(D, T) = g[T]
  BY <1>2, VolumeAddsUp
<1>4. f[T] = g[T]
  BY <1>1, <1>2, <1>3, AddsUpAlike
<1>5. f[S] = D[First(S)].volume + f[T]
  BY <1>1, AddsUpFacts
<1> QED
  BY <1>1, <1>3, <1>4, <1>5

LEMMA VolumeIsNat ==
  ASSUME NEW D, NEW S, IsFiniteSet(S), \A d \in S : D[d].volume \in Nat
  PROVE  VolumeOf(D, S) \in Nat
<1> DEFINE B == {T \in SUBSET S : VolumeOf(D, T) \notin Nat}
<1>1. SUFFICES ASSUME B # {} PROVE FALSE
  OBVIOUS
<1>2. PICK T \in B : \A U \in SUBSET T : U # T => U \notin B
  <2>1. B \in SUBSET (SUBSET S)
    OBVIOUS
  <2> HIDE DEF B
  <2> QED
    BY <1>1, <2>1, LeastSubset
<1>3. T \in SUBSET S /\ VolumeOf(D, T) \notin Nat /\ IsFiniteSet(T)
  BY FS_Subset
<1>4. T # {}
  BY <1>3, NoVolume
<1>5. First(T) \in T
  BY <1>4, FirstIsElement
<1>6. VolumeOf(D, T \ {First(T)}) \in Nat
  BY <1>2, <1>3, <1>5
<1>7. D[First(T)].volume \in Nat
  BY <1>3, <1>5
<1> QED
  BY <1>3, <1>4, <1>6, <1>7, VolumeOfFirst

\* The order in which volumes are added does not matter.
LEMMA VolumeOfOne ==
  ASSUME NEW D, NEW S, IsFiniteSet(S), \A d \in S : D[d].volume \in Nat, NEW x \in S
  PROVE  VolumeOf(D, S) = D[x].volume + VolumeOf(D, S \ {x})
<1> DEFINE B == {T \in SUBSET S : \E y \in T :
                   VolumeOf(D, T) # D[y].volume + VolumeOf(D, T \ {y})}
<1>1. SUFFICES ASSUME B # {} PROVE FALSE
  OBVIOUS
<1>2. PICK T \in B : \A U \in SUBSET T : U # T => U \notin B
  <2>1. B \in SUBSET (SUBSET S)
    OBVIOUS
  <2> HIDE DEF B
  <2> QED
    BY <1>1, <2>1, LeastSubset
<1>3. T \in SUBSET S /\ IsFiniteSet(T)
  BY FS_Subset
<1>4. PICK y \in T : VolumeOf(D, T) # D[y].volume + VolumeOf(D, T \ {y})
  OBVIOUS
<1> DEFINE z == First(T)
           U == T \ {z}
           V == T \ {y}
           W == (T \ {y}) \ {z}
<1>5. /\ z \in T /\ VolumeOf(D, T) = D[z].volume + VolumeOf(D, U)
  BY <1>3, <1>4, FirstIsElement, VolumeOfFirst
<1>6. y # z
  BY <1>4, <1>5
<1>7. /\ U \in SUBSET T /\ U # T /\ y \in U /\ U \ {y} = W
      /\ V \in SUBSET T /\ V # T /\ z \in V /\ V \ {z} = W
      /\ U \in SUBSET S /\ V \in SUBSET S
  BY <1>3, <1>4, <1>5, <1>6
<1>8. /\ VolumeOf(D, U) = D[y].volume + VolumeOf(D, U \ {y})
      /\ VolumeOf(D, V) = D[z].volume + VolumeOf(D, V \ {z})
  BY <1>2, <1>7
<1>9. VolumeOf(D, W) \in Nat /\ D[y].volume \in Nat /\ D[z].volume \in Nat
  <2>1. IsFiniteSet(W) /\ W \in SUBSET S
    BY <1>3, FS_Subset
  <2> QED
    BY <1>3, <1>4, <1>5, <2>1, VolumeIsNat
<1>10. /\ VolumeOf(D, U) = D[y].volume + VolumeOf(D, W)
       /\ VolumeOf(D, V) = D[z].volume + VolumeOf(D, W)
  BY <1>7, <1>8
<1> HIDE DEF z, U, V, W
<1>11. VolumeOf(D, T) = D[y].volume + VolumeOf(D, V)
  BY <1>5, <1>9, <1>10
<1> QED
  BY <1>4, <1>11 DEF V

\* How a sum changes when a drink is added, taken away, or given another volume; D is
\* the table before and E the one after.
LEMMA VolumeWith ==
  ASSUME NEW D, NEW E, NEW S, IsFiniteSet(S), NEW x, x \notin S, E[x].volume \in Nat,
         \A d \in S : E[d].volume = D[d].volume /\ D[d].volume \in Nat
  PROVE  VolumeOf(E, S \cup {x}) = VolumeOf(D, S) + E[x].volume
<1> DEFINE T == S \cup {x}
<1>1. IsFiniteSet(T) /\ T \ {x} = S /\ x \in T /\ \A d \in T : E[d].volume \in Nat
  BY FS_AddElement
<1> HIDE DEF T
<1>2. VolumeOf(E, T) = E[x].volume + VolumeOf(E, S)
  BY <1>1, VolumeOfOne
<1>3. VolumeOf(E, S) = VolumeOf(D, S) /\ VolumeOf(D, S) \in Nat
  BY SameVolume, VolumeIsNat
<1> QED
  BY <1>2, <1>3 DEF T

LEMMA VolumeWithout ==
  ASSUME NEW D, NEW E, NEW S, IsFiniteSet(S), NEW x \in S, \A d \in S : D[d].volume \in Nat,
         \A d \in S \ {x} : E[d].volume = D[d].volume
  PROVE  VolumeOf(E, S \ {x}) = VolumeOf(D, S) - D[x].volume
<1>1. IsFiniteSet(S \ {x})
  BY FS_RemoveElement
<1>2. VolumeOf(D, S) = D[x].volume + VolumeOf(D, S \ {x})
  BY VolumeOfOne
<1>3. VolumeOf(E, S \ {x}) = VolumeOf(D, S \ {x}) /\ VolumeOf(D, S \ {x}) \in Nat
  BY <1>1, SameVolume, VolumeIsNat
<1> QED
  BY <1>2, <1>3

LEMMA VolumeChanged ==
  ASSUME NEW D, NEW E, NEW S, IsFiniteSet(S), NEW x \in S, \A d \in S : D[d].volume \in Nat,
         E[x].volume \in Nat, \A d \in S \ {x} : E[d].volume = D[d].volume
  PROVE  VolumeOf(E, S) = VolumeOf(D, S) + (E[x].volume - D[x].volume)
<1>1. \A d \in S : E[d].volume \in Nat
  OBVIOUS
<1>2. IsFiniteSet(S \ {x})
  BY FS_RemoveElement
<1>3. /\ VolumeOf(E, S) = E[x].volume + VolumeOf(E, S \ {x})
      /\ VolumeOf(D, S) = D[x].volume + VolumeOf(D, S \ {x})
  BY <1>1, VolumeOfOne
<1>4. VolumeOf(E, S \ {x}) = VolumeOf(D, S \ {x}) /\ VolumeOf(D, S \ {x}) \in Nat
  BY <1>2, SameVolume, VolumeIsNat
<1> QED
  BY <1>3, <1>4

-----------------------------------------------------------------------------
(* The least and the greatest of a set *)

\* Less than on the natural numbers, as a relation.
Below == {p \in Nat \X Nat : p[1] < p[2]}

LEMMA BelowIsWellFounded == IsWellFoundedOn(Below, Nat)
BY NatLessThanWellFounded DEF Below, OpToRel

LEMMA LeastExists ==
  ASSUME NEW S \in SUBSET Nat, S # {}
  PROVE  \E m \in S : \A x \in S : m <= x
<1>1. PICK m \in S : \A x \in S : ~ <<x, m>> \in Below
  BY BelowIsWellFounded, WFMin
<1>2. ASSUME NEW x \in S PROVE m <= x
  <2>1. x \in Nat /\ m \in Nat
    OBVIOUS
  <2>2. ~(x < m)
    BY <1>1, <2>1 DEF Below
  <2> QED
    BY <2>1, <2>2
<1> QED
  BY <1>2

\* What the least and the greatest of a set are.
LEMMA MinFacts ==
  ASSUME NEW S \in SUBSET Nat, S # {}
  PROVE  Min(S) \in S /\ \A x \in S : Min(S) <= x
<1>1. PICK m \in S : \A x \in S : m <= x
  BY LeastExists
<1> QED
  BY <1>1 DEF Min

LEMMA MaxFacts ==
  ASSUME NEW S \in SUBSET Nat, S # {}, NEW bound \in Nat, \A x \in S : x <= bound
  PROVE  Max(S) \in S /\ \A x \in S : x <= Max(S)
<1> DEFINE T == {bound - x : x \in S}
<1>1. \A x \in S : bound - x \in Nat
  OBVIOUS
<1>2. T \in SUBSET Nat
  BY <1>1
<1>3. T # {}
  OBVIOUS
<1>4. PICK m \in T : \A y \in T : m <= y
  BY <1>2, <1>3, LeastExists
<1>5. PICK x \in S : m = bound - x
  OBVIOUS
<1>6. \A y \in S : y <= x
  <2> SUFFICES ASSUME NEW y \in S PROVE y <= x
    OBVIOUS
  <2>1. m <= bound - y
    BY <1>4
  <2> QED
    BY <1>5, <2>1
<1> QED
  BY <1>6 DEF Max

-----------------------------------------------------------------------------
(* Pictures and warnings *)

\* What a keg and the settings of a site may say.
KegVolumes == [full : Int, remaining : Int]

SiteSettings ==
  [empty_pints : Nat, critical_pints : Nat, critical_percent : 0 .. 100,
   low_pints : Nat, low_percent : 0 .. 100]

\* A quotient that is passed by the smaller volume is passed by the larger.
LEMMA QuotientsFollowVolume ==
  ASSUME NEW full \in Int, NEW less \in Int, NEW more \in Int, less <= more,
         NEW p \in Nat
  PROVE  /\ AtLeast([full |-> full, remaining |-> less], p) =>
              AtLeast([full |-> full, remaining |-> more], p)
         /\ AtMost([full |-> full, remaining |-> more], p) =>
              AtMost([full |-> full, remaining |-> less], p)
<1> DEFINE part == p * full
<1>1. part \in Int
  OBVIOUS
<1> HIDE DEF part
<1>2. (100 * less >= part => 100 * more >= part) /\ (100 * more <= part => 100 * less <= part)
  BY <1>1
<1> QED
  BY <1>2 DEF AtLeast, AtMost, part

\* Pouring never makes a keg look fuller: the picture of a keg goes through its levels
\* in one direction (get_illustration, build_tap_state_payload).
THEOREM PictureFollowsVolume ==
  ASSUME NEW full \in Int, NEW less \in Int, NEW more \in Int, less <= more
  PROVE  Level([full |-> full, remaining |-> less]) <= Level([full |-> full, remaining |-> more])
<1> DEFINE a == [full |-> full, remaining |-> less]
           b == [full |-> full, remaining |-> more]
<1>1. \A p \in {98, 75, 45, 25, 10} : AtLeast(a, p) => AtLeast(b, p)
  BY QuotientsFollowVolume
<1>2. /\ AtLeast(b, 98) => AtLeast(b, 75)
      /\ AtLeast(b, 75) => AtLeast(b, 45)
      /\ AtLeast(b, 45) => AtLeast(b, 25)
      /\ AtLeast(b, 25) => AtLeast(b, 10)
  BY DEF AtLeast
<1>3. /\ AtLeast(a, 98) => AtLeast(a, 75)
      /\ AtLeast(a, 75) => AtLeast(a, 45)
      /\ AtLeast(a, 45) => AtLeast(a, 25)
      /\ AtLeast(a, 25) => AtLeast(a, 10)
  BY DEF AtLeast
<1> HIDE DEF a, b
<1> QED
  BY <1>1, <1>2, <1>3 DEF Level, a, b

\* As a keg empties its warning only becomes more severe, for any settings of the site,
\* thresholds in the wrong order included, and for kegs without a volume.
THEOREM WarningFollowsVolume ==
  ASSUME NEW full \in Int, NEW less \in Int, NEW more \in Int, less <= more,
         NEW site \in SiteSettings
  PROVE  LevelStatus([full |-> full, remaining |-> less], site)
           >= LevelStatus([full |-> full, remaining |-> more], site)
<1> DEFINE a == [full |-> full, remaining |-> less]
           b == [full |-> full, remaining |-> more]
<1>1. \A n \in Nat : PintsAtMost(b, n) => PintsAtMost(a, n)
  <2> SUFFICES ASSUME NEW n \in Nat, PintsAtMost(b, n) PROVE PintsAtMost(a, n)
    OBVIOUS
  <2> QED
    BY n * Pint \in Int DEF PintsAtMost, Pint
<1>2. \A n, p \in Nat : Hits(b, n, p) => Hits(a, n, p)
  BY <1>1, QuotientsFollowVolume DEF Hits
<1>3. /\ site.empty_pints \in Nat /\ site.critical_pints \in Nat /\ site.low_pints \in Nat
      /\ site.critical_percent \in Nat /\ site.low_percent \in Nat
  BY DEF SiteSettings
<1> HIDE DEF a, b
<1>4. LevelStatus(a, site) >= LevelStatus(b, site)
  BY <1>1, <1>2, <1>3 DEF LevelStatus
<1> QED
  BY <1>4 DEF a, b

\* A keg with nothing left is "empty", for any settings.
THEOREM NothingLeftIsEmpty ==
  ASSUME NEW keg \in KegVolumes, NEW site \in SiteSettings, keg.remaining <= 0
  PROVE  LevelStatus(keg, site) = 3
<1>1. site.empty_pints \in Nat /\ keg.remaining \in Int
  BY DEF SiteSettings, KegVolumes
<1>2. keg.remaining <= site.empty_pints * Pint
  BY <1>1 DEF Pint
<1> QED
  BY <1>1, <1>2 DEF LevelStatus, PintsAtMost

\* A keg without a warning is not shown as empty: no page says nothing beside the picture
\* of an empty keg, as long as the low threshold is at least 10 percent.
THEOREM EmptyPictureIsWarned ==
  ASSUME NEW keg \in KegVolumes, NEW site \in SiteSettings, keg.full > 0, site.low_percent >= 10,
         Level(keg) = 0
  PROVE  LevelStatus(keg, site) > 0
<1>1. site.low_percent \in 10 .. 100 /\ keg.full \in Int /\ keg.remaining \in Int
  BY DEF SiteSettings, KegVolumes
<1>2. ~AtLeast(keg, 10)
  BY <1>1 DEF Level, AtLeast
<1>3. 100 * keg.remaining < 10 * keg.full
  BY <1>1, <1>2 DEF AtLeast
<1>4. 10 * keg.full <= site.low_percent * keg.full
  BY <1>1
<1>5. AtMost(keg, site.low_percent)
  BY <1>1, <1>3, <1>4 DEF AtMost
<1> QED
  BY <1>5 DEF LevelStatus, Hits

=============================================================================
