-------------------------- MODULE Displays_proofs --------------------------
(***************************************************************************)
(* What is proved of the fullscreen display: of its panel of pours         *)
(* (PourPanel), for any meters and any number of readings, and of its      *)
(* cards of taps (TapCards), for any taps, kegs and requests.  The two     *)
(* share nothing but the page they are on.                                 *)
(*                                                                         *)
(* CardsInStep, CardShowsItsPour and ImplementsPourCards: the script's     *)
(* dictionaries are kept in step by three handlers, each of which is shown *)
(* to preserve Dictionaries by itself.  Books adds what the volumes have   *)
(* to do with what has flowed.  The step onto PourCards then needs only    *)
(* that the panel shows the dictionaries.                                  *)
(*                                                                         *)
(* KegsCatchUp and VolumesCatchUp: the first needs little more than        *)
(* itself: a change the page has not made is with a request that will      *)
(* announce it, or on its way.  The second rests on what ~amiss stands     *)
(* for: one request at a time, a message that is what the request sees,    *)
(* and the newest message, or else the page itself, showing what will be   *)
(* committed.                                                              *)
(***************************************************************************)
EXTENDS PourPanel, TapCards, SequenceTheorems, TLAPS

-----------------------------------------------------------------------------
(* The panel of pours *)

OnPanel == Range(pourOrder)

\* The dictionaries and timers have the keys they should have.
Dictionaries ==
  /\ pourOrder \in Seq(Meters)
  /\ IsInjective(pourOrder)
  /\ currentPours \in [OnPanel -> Nat]
  /\ pourBaselines \in [OnPanel -> Nat]
  /\ pourSettled \in [DOMAIN pourSettled -> BOOLEAN]
  /\ OnPanel \subseteq DOMAIN pourSettled
  /\ updateTimers = OnPanel
  /\ settleTimers = {m \in DOMAIN pourSettled : ~pourSettled[m]}
  /\ settleTimers \subseteq OnPanel

\* The panel is what renderPourPanel makes of them.
Drawn == panel = Cards(pourOrder, currentPours, pourBaselines, pourSettled)

Beginnings == [at : Nat, sure : BOOLEAN, blind : BOOLEAN]

\* Volume v is that of a reading of meter m that was taken since its card appeared.
IsSince(m, v) ==
  \E k \in Nat : began[m].at <= k /\ k <= reading[m] /\ v = k * rate[m]

\* What is known of a card whose meter has been left alone: the listener has no other rate
\* for it than the database, and its volumes are those of readings then and since.
SureBooks(m) ==
  /\ m \in DOMAIN tapInfo => tapInfo[m] = rate[m]
  /\ began[m].at <= reading[m]
  /\ pourBaselines[m] = began[m].at * rate[m]
  /\ ~began[m].blind => IsSince(m, currentPours[m])

Books ==
  /\ reading \in [Meters -> Nat]
  /\ rate \in [Meters -> Nat]
  /\ tapInfo \in [DOMAIN tapInfo -> Nat]
  /\ began \in [OnPanel -> Beginnings]
  /\ \A m \in OnPanel : began[m].sure => SureBooks(m)

PanelInv == Dictionaries /\ Drawn /\ Books

-----------------------------------------------------------------------------
(* Dictionaries and sequences *)

\* A card for a meter that has none goes to the end.
LEMMA AppendFacts ==
  ASSUME NEW S, NEW s \in Seq(S), IsInjective(s), NEW m \in S, m \notin Range(s)
  PROVE  /\ Append(s, m) \in Seq(S)
         /\ IsInjective(Append(s, m))
         /\ Range(Append(s, m)) = Range(s) \cup {m}
<1> DEFINE t == Append(s, m)
<1>1. /\ t \in Seq(S)
      /\ Len(t) = Len(s) + 1
      /\ \A i \in 1 .. Len(s) : t[i] = s[i]
      /\ t[Len(s) + 1] = m
      /\ DOMAIN t = 1 .. Len(s) + 1
      /\ DOMAIN s = 1 .. Len(s)
      /\ Len(s) \in Nat
  OBVIOUS
<1> HIDE DEF t
<1>2. Range(t) = Range(s) \cup {m}
  <2>1. ASSUME NEW x \in Range(t) PROVE x \in Range(s) \cup {m}
    <3>1. PICK i \in 1 .. Len(s) + 1 : x = t[i]
      BY <1>1 DEF Range
    <3>2. i \in 1 .. Len(s) \/ i = Len(s) + 1
      BY <1>1
    <3> QED
      BY <1>1, <3>1, <3>2 DEF Range
  <2>2. ASSUME NEW x \in Range(s) PROVE x \in Range(t)
    <3>1. PICK i \in 1 .. Len(s) : x = s[i]
      BY <1>1 DEF Range
    <3>2. i \in 1 .. Len(s) + 1 /\ x = t[i]
      BY <1>1, <3>1
    <3> QED
      BY <1>1, <3>2 DEF Range
  <2>3. m \in Range(t)
    BY <1>1, Len(s) + 1 \in 1 .. Len(s) + 1 DEF Range
  <2> QED
    BY <2>1, <2>2, <2>3
<1>3. IsInjective(t)
  <2> SUFFICES ASSUME NEW i \in 1 .. Len(s) + 1, NEW j \in 1 .. Len(s) + 1, t[i] = t[j]
               PROVE  i = j
    BY <1>1 DEF IsInjective
  <2>1. \A k \in 1 .. Len(s) : s[k] # m
    BY <1>1 DEF Range
  <2> QED
    BY <1>1, <2>1 DEF IsInjective
<1> QED
  BY <1>1, <1>2, <1>3 DEF t

\* What follows a place in a sequence.
LEMMA RestFacts ==
  ASSUME NEW S, NEW s \in Seq(S), NEW k \in 1 .. Len(s)
  PROVE  /\ SubSeq(s, k + 1, Len(s)) \in Seq(S)
         /\ Len(SubSeq(s, k + 1, Len(s))) = Len(s) - k
         /\ \A i \in 1 .. Len(s) - k : SubSeq(s, k + 1, Len(s))[i] = s[i + k]
<1> DEFINE n == Len(s)
<1>1. n \in Nat /\ k \in 1 .. n
  OBVIOUS
<1>2. SUFFICES ASSUME NEW b, b = SubSeq(s, k + 1, n)
               PROVE  /\ b \in Seq(S)
                      /\ Len(b) = n - k
                      /\ \A i \in 1 .. n - k : b[i] = s[i + k]
  OBVIOUS
<1>3. \A i \in k + 1 .. n : s[i] \in S
  BY <1>1
<1>4. /\ b \in Seq(S)
      /\ Len(b) = IF k + 1 <= n THEN n - (k + 1) + 1 ELSE 0
      /\ \A i \in 1 .. n - (k + 1) + 1 : b[i] = s[k + 1 + i - 1]
  BY <1>1, <1>2, <1>3, SubSeqProperties, k + 1 \in Int
<1> HIDE DEF n
<1>5. Len(b) = n - k
  BY <1>1, <1>4
<1>6. ASSUME NEW i \in 1 .. n - k PROVE b[i] = s[i + k]
  <2>1. i \in 1 .. n - (k + 1) + 1 /\ k + 1 + i - 1 = i + k
    BY <1>1
  <2> QED
    BY <1>4, <2>1
<1> QED
  BY <1>4, <1>5, <1>6

\* A card that goes leaves the others, in their order.
LEMMA RemoveFacts ==
  ASSUME NEW S, NEW s \in Seq(S), IsInjective(s), NEW m \in Range(s)
  PROVE  /\ RemoveFirst(s, m) \in Seq(S)
         /\ IsInjective(RemoveFirst(s, m))
         /\ Range(RemoveFirst(s, m)) = Range(s) \ {m}
<1>1. /\ DOMAIN s = 1 .. Len(s)
      /\ Len(s) \in Nat
  OBVIOUS
<1>2. PICK k \in 1 .. Len(s) : s[k] = m
  BY <1>1 DEF Range
<1>3. {i \in 1 .. Len(s) : s[i] = m} = {k}
  BY <1>1, <1>2 DEF IsInjective
<1>4. SelectInSeq(s, LAMBDA v : v = m) = k
  BY <1>2, <1>3 DEF SelectInSeq, Min
<1> DEFINE t == SubSeq(s, 1, k - 1) \o SubSeq(s, k + 1, Len(s))
<1>5. RemoveFirst(s, m) = t
  BY <1>2, <1>4 DEF RemoveFirst, RemoveAt
<1>6. /\ t \in Seq(S)
      /\ DOMAIN t = 1 .. Len(s) - 1
      /\ \A i \in 1 .. k - 1 : t[i] = s[i]
      /\ \A i \in k .. Len(s) - 1 : t[i] = s[i + 1]
  <2> DEFINE a == SubSeq(s, 1, k - 1)
             b == SubSeq(s, k + 1, Len(s))
  <2>1. /\ a \in Seq(S) /\ Len(a) = k - 1
        /\ \A i \in 1 .. k - 1 : a[i] = s[i]
    BY <1>1
  <2>2. /\ b \in Seq(S) /\ Len(b) = Len(s) - k
        /\ \A i \in 1 .. Len(s) - k : b[i] = s[i + k]
    BY RestFacts
  <2> HIDE DEF a, b
  <2>3. /\ a \o b \in Seq(S)
        /\ Len(a \o b) = Len(s) - 1
        /\ \A i \in 1 .. Len(s) - 1 :
             (a \o b)[i] = IF i <= k - 1 THEN a[i] ELSE b[i - (k - 1)]
    <3>1. /\ a \o b \in Seq(S)
          /\ Len(a \o b) = Len(a) + Len(b)
          /\ \A i \in 1 .. Len(a) + Len(b) :
               (a \o b)[i] = IF i <= Len(a) THEN a[i] ELSE b[i - Len(a)]
      BY <2>1, <2>2, ConcatProperties
    <3>2. Len(a) + Len(b) = Len(s) - 1
      BY <1>1, <2>1, <2>2
    <3> QED
      BY <2>1, <3>1, <3>2
  <2>4. ASSUME NEW i \in k .. Len(s) - 1 PROVE (a \o b)[i] = s[i + 1]
    BY <1>1, <2>2, <2>3
  <2>5. t = a \o b
    BY DEF a, b
  <2> HIDE DEF t
  <2>6. \A i \in 1 .. k - 1 : (a \o b)[i] = s[i]
    BY <1>1, <2>1, <2>3
  <2>7. DOMAIN (a \o b) = 1 .. Len(s) - 1
    BY <2>3
  <2> QED
    BY <2>3, <2>4, <2>5, <2>6, <2>7
<1> HIDE DEF t
<1>7. IsInjective(t)
  <2> SUFFICES ASSUME NEW i \in 1 .. Len(s) - 1, NEW j \in 1 .. Len(s) - 1, t[i] = t[j]
               PROVE  i = j
    BY <1>6 DEF IsInjective
  <2>1. PICK x \in 1 .. Len(s) : t[i] = s[x] /\ x = (IF i <= k - 1 THEN i ELSE i + 1)
    BY <1>1, <1>6
  <2>2. PICK y \in 1 .. Len(s) : t[j] = s[y] /\ y = (IF j <= k - 1 THEN j ELSE j + 1)
    BY <1>1, <1>6
  <2>3. x = y
    BY <1>1, <2>1, <2>2 DEF IsInjective
  <2> QED
    BY <2>1, <2>2, <2>3
<1>8. Range(t) = Range(s) \ {m}
  <2>1. ASSUME NEW x \in Range(t) PROVE x \in Range(s) \ {m}
    <3>1. PICK i \in 1 .. Len(s) - 1 : x = t[i]
      BY <1>6 DEF Range
    <3>2. PICK j \in 1 .. Len(s) : x = s[j] /\ j # k
      BY <1>1, <1>6, <3>1
    <3> QED
      BY <1>1, <1>2, <3>2 DEF Range, IsInjective
  <2>2. ASSUME NEW x \in Range(s) \ {m} PROVE x \in Range(t)
    <3>1. PICK j \in 1 .. Len(s) : x = s[j]
      BY <1>1 DEF Range
    <3>2. j \in 1 .. k - 1 \/ j - 1 \in k .. Len(s) - 1
      BY <1>1, <1>2, <3>1
    <3>3. \E i \in 1 .. Len(s) - 1 : x = t[i]
      <4>1. CASE j \in 1 .. k - 1
        BY <1>1, <1>6, <3>1, <4>1
      <4>2. CASE j - 1 \in k .. Len(s) - 1
        <5>1. t[j - 1] = s[j - 1 + 1] /\ j - 1 + 1 = j
          BY <1>6, <4>2
        <5> QED
          BY <1>1, <3>1, <4>2, <5>1
      <4> QED
        BY <3>2, <4>1, <4>2
    <3> QED
      BY <1>6, <3>3 DEF Range
  <2> QED
    BY <2>1, <2>2
<1> QED
  BY <1>5, <1>6, <1>7, <1>8

-----------------------------------------------------------------------------
(* The three handlers *)

\* The dictionary of settled pours after an entry was set.
LEMMA SettledFacts ==
  ASSUME Dictionaries, NEW m, NEW v \in BOOLEAN, pourSettled' = Put(pourSettled, m, v)
  PROVE  /\ DOMAIN pourSettled' = DOMAIN pourSettled \cup {m}
         /\ pourSettled' \in [DOMAIN pourSettled' -> BOOLEAN]
         /\ pourSettled'[m] = v
         /\ \A x \in DOMAIN pourSettled : x # m => pourSettled'[x] = pourSettled[x]
<1>1. pourSettled \in [DOMAIN pourSettled -> BOOLEAN]
  BY DEF Dictionaries
<1>2. pourSettled' \in [DOMAIN pourSettled \cup {m} -> BOOLEAN]
  BY <1>1 DEF Put
<1> QED
  BY <1>1, <1>2 DEF Put

\* A reading gives its meter a card, or keeps the one it has, with the baseline of old.
LEMMA UpdateKeeps ==
  ASSUME Dictionaries, NEW m \in Meters, NEW volume \in Nat, handlePourUpdate(m, volume)
  PROVE  /\ Dictionaries'
         /\ OnPanel' = OnPanel \cup {m}
         /\ currentPours'[m] = volume
         /\ \A x \in OnPanel : x # m => currentPours'[x] = currentPours[x]
         /\ m \notin OnPanel => pourBaselines'[m] = volume
         /\ \A x \in OnPanel : pourBaselines'[x] = pourBaselines[x]
<1>1. /\ pourOrder' \in Seq(Meters)
      /\ IsInjective(pourOrder')
      /\ OnPanel' = OnPanel \cup {m}
      /\ pourBaselines' \in [OnPanel' -> Nat]
      /\ m \notin OnPanel => pourBaselines'[m] = volume
      /\ \A x \in OnPanel : pourBaselines'[x] = pourBaselines[x]
  <2>1. CASE m \in OnPanel
    <3>1. UNCHANGED <<pourOrder, pourBaselines>>
      BY <2>1 DEF handlePourUpdate, OnPanel
    <3> QED
      BY <2>1, <3>1 DEF Dictionaries, OnPanel
  <2>2. CASE m \notin OnPanel
    <3>1. /\ pourOrder' = Append(pourOrder, m)
          /\ pourBaselines' = Put(pourBaselines, m, volume)
      BY <2>2 DEF handlePourUpdate, OnPanel
    <3>2. /\ pourOrder' \in Seq(Meters)
          /\ IsInjective(pourOrder')
          /\ OnPanel' = OnPanel \cup {m}
      BY <2>2, <3>1, AppendFacts DEF Dictionaries, OnPanel
    <3>3. pourBaselines \in [OnPanel -> Nat]
      BY DEF Dictionaries
    <3> QED
      BY <2>2, <3>1, <3>2, <3>3 DEF Put
  <2> QED
    BY <2>1, <2>2
<1>2. /\ currentPours' \in [OnPanel' -> Nat]
      /\ currentPours'[m] = volume
      /\ \A x \in OnPanel : x # m => currentPours'[x] = currentPours[x]
  <2>1. currentPours' = Put(currentPours, m, volume) /\ currentPours \in [OnPanel -> Nat]
    BY DEF handlePourUpdate, Dictionaries
  <2> QED
    BY <1>1, <2>1 DEF Put
<1>3. /\ DOMAIN pourSettled' = DOMAIN pourSettled \cup {m}
      /\ pourSettled' \in [DOMAIN pourSettled' -> BOOLEAN]
      /\ pourSettled'[m] = FALSE
      /\ \A x \in DOMAIN pourSettled : x # m => pourSettled'[x] = pourSettled[x]
  BY SettledFacts DEF handlePourUpdate
<1>4. settleTimers' = settleTimers \cup {m} /\ updateTimers' = updateTimers \cup {m}
  BY DEF handlePourUpdate
<1>5. settleTimers' = {x \in DOMAIN pourSettled' : ~pourSettled'[x]}
  BY <1>3, <1>4 DEF Dictionaries
<1>6. /\ OnPanel' \subseteq DOMAIN pourSettled'
      /\ updateTimers' = OnPanel'
      /\ settleTimers' \subseteq OnPanel'
  BY <1>1, <1>3, <1>4 DEF Dictionaries
<1>7. Dictionaries'
  BY <1>1, <1>2, <1>3, <1>5, <1>6 DEF Dictionaries
<1> QED
  BY <1>1, <1>2, <1>7

\* The end of a pour, announced or by the settle timer, is noted and changes nothing else.
LEMMA EndedKeeps ==
  ASSUME Dictionaries, NEW m, handlePourEnded(m)
  PROVE  /\ Dictionaries'
         /\ UNCHANGED <<pourOrder, currentPours, pourBaselines>>
<1>1. UNCHANGED <<pourOrder, currentPours, pourBaselines, updateTimers>>
  BY DEF handlePourEnded
<1>2. /\ DOMAIN pourSettled' = DOMAIN pourSettled \cup {m}
      /\ pourSettled' \in [DOMAIN pourSettled' -> BOOLEAN]
      /\ pourSettled'[m] = TRUE
      /\ \A x \in DOMAIN pourSettled : x # m => pourSettled'[x] = pourSettled[x]
  BY SettledFacts DEF handlePourEnded
<1>3. settleTimers' = settleTimers \ {m}
  BY DEF handlePourEnded
<1>4. settleTimers' = {x \in DOMAIN pourSettled' : ~pourSettled'[x]}
  BY <1>2, <1>3 DEF Dictionaries
<1>5. OnPanel' = OnPanel
  BY <1>1 DEF OnPanel
<1>6. Dictionaries'
  BY <1>1, <1>2, <1>3, <1>4, <1>5 DEF Dictionaries
<1> QED
  BY <1>1, <1>6

\* A card takes all its entries with it.
LEMMA RemoveKeeps ==
  ASSUME Dictionaries, NEW m \in OnPanel, removePour(m)
  PROVE  /\ Dictionaries'
         /\ OnPanel' = OnPanel \ {m}
         /\ \A x \in OnPanel \ {m} : /\ currentPours'[x] = currentPours[x]
                                     /\ pourBaselines'[x] = pourBaselines[x]
<1>1. /\ pourOrder' \in Seq(Meters)
      /\ IsInjective(pourOrder')
      /\ OnPanel' = OnPanel \ {m}
  BY RemoveFacts DEF Dictionaries, OnPanel, removePour
<1>2. /\ currentPours' \in [OnPanel' -> Nat]
      /\ pourBaselines' \in [OnPanel' -> Nat]
      /\ \A x \in OnPanel \ {m} : /\ currentPours'[x] = currentPours[x]
                                  /\ pourBaselines'[x] = pourBaselines[x]
  <2>1. /\ currentPours' = Without(currentPours, m) /\ currentPours \in [OnPanel -> Nat]
        /\ pourBaselines' = Without(pourBaselines, m) /\ pourBaselines \in [OnPanel -> Nat]
    BY DEF removePour, Dictionaries
  <2> QED
    BY <1>1, <2>1 DEF Without, Restrict
<1>3. /\ pourSettled' \in [DOMAIN pourSettled \ {m} -> BOOLEAN]
      /\ \A x \in DOMAIN pourSettled \ {m} : pourSettled'[x] = pourSettled[x]
  <2>1. pourSettled' = Without(pourSettled, m) /\ pourSettled \in [DOMAIN pourSettled -> BOOLEAN]
    BY DEF removePour, Dictionaries
  <2> QED
    BY <2>1 DEF Without, Restrict
<1>4. DOMAIN pourSettled' = DOMAIN pourSettled \ {m}
  BY <1>3
<1>5. settleTimers' = settleTimers \ {m} /\ updateTimers' = updateTimers \ {m}
  BY DEF removePour
<1>6. settleTimers' = {x \in DOMAIN pourSettled' : ~pourSettled'[x]}
  BY <1>3, <1>4, <1>5 DEF Dictionaries
<1>7. /\ OnPanel' \subseteq DOMAIN pourSettled'
      /\ updateTimers' = OnPanel'
      /\ settleTimers' \subseteq OnPanel'
  BY <1>1, <1>4, <1>5 DEF Dictionaries
<1>8. Dictionaries'
  BY <1>1, <1>2, <1>3, <1>4, <1>6, <1>7 DEF Dictionaries
<1> QED
  BY <1>1, <1>2, <1>8

-----------------------------------------------------------------------------
(* The invariant *)

LEMMA PanelInitInv == Init => PanelInv
<1> SUFFICES ASSUME Init PROVE PanelInv
  OBVIOUS
<1>1. OnPanel = {} /\ IsInjective(pourOrder) /\ pourOrder \in Seq(Meters)
  BY DEF Init, OnPanel, Range, IsInjective
<1>2. \A V : Nothing \in [{} -> V]
  BY DEF Nothing
<1>3. DOMAIN Nothing = {}
  BY DEF Nothing
<1>4. Dictionaries
  BY <1>1, <1>2, <1>3 DEF Init, Dictionaries
<1>5. Drawn
  BY DEF Init, Drawn, Cards
<1>6. rate \in [Meters -> Nat]
  BY RatesAssumption DEF Init
<1>7. Books
  BY <1>1, <1>2, <1>3, <1>6 DEF Init, Books
<1> QED
  BY <1>4, <1>5, <1>7 DEF PanelInv

\* What flows meanwhile does not matter to the cards.
LEMMA ReadsKeeps ==
  ASSUME Books, NEW m \in Meters, Reads(m)
  PROVE  /\ reading' \in [Meters -> Nat]
         /\ rate' = rate
         /\ reading'[m] = reading[m] + 1
         /\ \A x \in Meters : reading'[x] >= reading[x]
BY MaxReadingAssumption DEF Books, Reads

\* Nor does what the listener looks up, which is what the database has.
LEMMA LooksUpKeeps ==
  ASSUME Books, NEW m \in Meters, NEW asked \in BOOLEAN, LooksUp(m, asked)
  PROVE  /\ tapInfo' \in [DOMAIN tapInfo' -> Nat]
         /\ \A x \in DOMAIN tapInfo' : \/ x \in DOMAIN tapInfo /\ tapInfo'[x] = tapInfo[x]
                                      \/ tapInfo'[x] = rate[x]
<1>1. CASE asked
  <2>1. tapInfo' = Put(tapInfo, m, rate[m]) /\ rate[m] \in Nat
    BY <1>1 DEF LooksUp, Books
  <2> QED
    BY <2>1 DEF Put, Books
<1>2. CASE ~asked
  BY <1>2 DEF LooksUp, Books
<1> QED
  BY <1>1, <1>2

\* A card of which nothing changes, while its meter counts on.
LEMMA CardKept ==
  ASSUME PanelInv, NEW m \in OnPanel, began[m].sure,
         m \in OnPanel', began'[m] = began[m], rate'[m] = rate[m],
         reading'[m] \in Nat, reading'[m] >= reading[m],
         m \in DOMAIN tapInfo' => \/ m \in DOMAIN tapInfo /\ tapInfo'[m] = tapInfo[m]
                                  \/ tapInfo'[m] = rate[m],
         pourBaselines'[m] = pourBaselines[m], currentPours'[m] = currentPours[m]
  PROVE  SureBooks(m)'
<1>1. /\ SureBooks(m)
      /\ m \in Meters /\ reading[m] \in Nat /\ began[m].at \in Nat
  BY DEF PanelInv, Books, Beginnings, Dictionaries, OnPanel, Range
<1>2. m \in DOMAIN tapInfo' => tapInfo'[m] = rate'[m]
  BY <1>1 DEF SureBooks
<1>3. began'[m].at <= reading'[m] /\ pourBaselines'[m] = began'[m].at * rate'[m]
  BY <1>1 DEF SureBooks
<1>4. ASSUME ~began'[m].blind
      PROVE  IsSince(m, currentPours[m])'
  <2>1. PICK k \in Nat : /\ began[m].at <= k /\ k <= reading[m]
                         /\ currentPours[m] = k * rate[m]
    BY <1>1, <1>4 DEF SureBooks, IsSince
  <2>2. k <= reading'[m]
    BY <1>1, <2>1
  <2> QED
    BY <2>1, <2>2 DEF IsSince
<1> QED
  BY <1>2, <1>3, <1>4 DEF SureBooks

LEMMA PageKept ==
  ASSUME PanelInv, UNCHANGED pageVars, UNCHANGED rate,
         reading' \in [Meters -> Nat], \A x \in Meters : reading'[x] >= reading[x],
         tapInfo' \in [DOMAIN tapInfo' -> Nat],
         \A x \in DOMAIN tapInfo' : \/ x \in DOMAIN tapInfo /\ tapInfo'[x] = tapInfo[x]
                                    \/ tapInfo'[x] = rate[x]
  PROVE  PanelInv'
<1>1. /\ UNCHANGED <<pourOrder, currentPours, pourBaselines, pourSettled>>
      /\ UNCHANGED <<settleTimers, updateTimers, panel, began>>
  BY DEF pageVars, pourVars
<1>2. OnPanel' = OnPanel /\ OnPanel \subseteq Meters
  BY <1>1 DEF OnPanel, PanelInv, Dictionaries, Range
<1>3. Dictionaries' /\ Drawn'
  BY <1>1, <1>2 DEF PanelInv, Dictionaries, Drawn
<1>4. ASSUME NEW m \in OnPanel, began[m].sure PROVE SureBooks(m)'
  <2>1. m \in Meters /\ m \in OnPanel'
    BY <1>2
  <2> QED
    BY <1>1, <1>4, <2>1, CardKept
<1>5. Books'
  BY <1>1, <1>2, <1>4 DEF PanelInv, Books
<1> QED
  BY <1>3, <1>5 DEF PanelInv

\* A calibrated meter makes a card unsure.
LEMMA CalibrateKeeps ==
  ASSUME PanelInv, NEW m \in Meters, Calibrate(m)
  PROVE  PanelInv'
<1>1. PICK r \in Rates[m] : rate' = [rate EXCEPT ![m] = r]
  BY DEF Calibrate
<1>2. /\ UNCHANGED <<pourOrder, currentPours, pourBaselines, pourSettled>>
      /\ UNCHANGED <<settleTimers, updateTimers, panel, reading, tapInfo>>
      /\ OnPanel' = OnPanel /\ OnPanel \subseteq Meters
  BY DEF Calibrate, pourVars, OnPanel, PanelInv, Dictionaries, Range
<1>3. Dictionaries' /\ Drawn'
  BY <1>2 DEF PanelInv, Dictionaries, Drawn
<1>4. rate' \in [Meters -> Nat] /\ \A x \in Meters : x # m => rate'[x] = rate[x]
  BY <1>1, RatesAssumption DEF PanelInv, Books
<1>5. /\ began' \in [OnPanel -> Beginnings]
      /\ \A x \in OnPanel : x # m => began'[x] = began[x]
      /\ m \in OnPanel => ~began'[m].sure
  <2>1. \A x \in OnPanel : [began[x] EXCEPT !.sure = FALSE] \in Beginnings
    BY DEF PanelInv, Books, Beginnings
  <2>2. began \in [OnPanel -> Beginnings]
    BY DEF PanelInv, Books
  <2>3. began' = [x \in OnPanel |->
                    IF x = m THEN [began[x] EXCEPT !.sure = FALSE] ELSE began[x]]
    BY <2>2 DEF Calibrate
  <2>4. m \in OnPanel => ~[began[m] EXCEPT !.sure = FALSE].sure
    BY <2>2 DEF Beginnings
  <2> QED
    BY <2>1, <2>2, <2>3, <2>4
<1>6. ASSUME NEW x \in OnPanel, began'[x].sure PROVE SureBooks(x)'
  <2>1. x # m /\ began'[x] = began[x] /\ rate'[x] = rate[x] /\ x \in OnPanel'
    BY <1>2, <1>4, <1>5, <1>6
  <2>2. reading[x] \in Nat /\ reading[x] >= reading[x]
    BY <1>2 DEF PanelInv, Books
  <2> QED
    BY <1>2, <1>6, <2>1, <2>2, CardKept
<1>7. Books'
  BY <1>2, <1>4, <1>5, <1>6 DEF PanelInv, Books
<1> QED
  BY <1>3, <1>7 DEF PanelInv

\* The volume that is sent is that of the reading at the rate used.
LEMMA SentVolume ==
  ASSUME Books, NEW m \in Meters, NEW asked \in BOOLEAN, reading' \in [Meters -> Nat]
  PROVE  /\ RateUsed(m, asked) \in Nat
         /\ VolumeOf(m, asked) = reading'[m] * RateUsed(m, asked)
         /\ VolumeOf(m, asked) \in Nat
         /\ Blind(m, asked) \in BOOLEAN
<1>1. RateUsed(m, asked) \in Nat
  BY DEF RateUsed, Books
<1>2. VolumeOf(m, asked) = reading'[m] * RateUsed(m, asked) /\ reading'[m] \in Nat
  BY DEF VolumeOf
<1>3. \A a, b \in Nat : a * b \in Nat
  OBVIOUS
<1>4. VolumeOf(m, asked) \in Nat
  BY <1>1, <1>2, <1>3
<1> QED
  BY <1>1, <1>2, <1>4 DEF Blind

\* A reading that reaches the page.
LEMMA SentKeeps ==
  ASSUME PanelInv, NEW m \in Meters, NEW asked \in BOOLEAN, ReadingSent(m, asked), connected
  PROVE  PanelInv'
<1> DEFINE volume == VolumeOf(m, asked)
           used == RateUsed(m, asked)
           blind == Blind(m, asked)
           sure == used = rate[m]
<1>1. /\ reading' \in [Meters -> Nat]
      /\ rate' = rate
      /\ reading'[m] = reading[m] + 1
      /\ \A x \in Meters : reading'[x] >= reading[x]
  BY ReadsKeeps DEF ReadingSent, PanelInv
<1>2. /\ tapInfo' \in [DOMAIN tapInfo' -> Nat]
      /\ \A x \in DOMAIN tapInfo' : \/ x \in DOMAIN tapInfo /\ tapInfo'[x] = tapInfo[x]
                                   \/ tapInfo'[x] = rate[x]
  BY LooksUpKeeps DEF ReadingSent, PanelInv
<1>3. used \in Nat /\ volume = reading'[m] * used /\ volume \in Nat /\ blind \in BOOLEAN
  BY <1>1, SentVolume DEF PanelInv
<1>4. /\ handlePourUpdate(m, volume)
      /\ began' = Put(began, m,
           IF m \in OnPanel
           THEN [began[m] EXCEPT !.blind = blind]
           ELSE [at |-> reading'[m], sure |-> sure, blind |-> blind])
      /\ sure \in BOOLEAN /\ (sure => used = rate[m])
  BY DEF ReadingSent, OnPanel
<1>5. /\ m \in DOMAIN tapInfo' => tapInfo'[m] = IF asked THEN rate[m] ELSE tapInfo[m]
      /\ ~blind => m \in DOMAIN tapInfo' /\ used = tapInfo'[m]
      /\ m \in DOMAIN tapInfo' => used = tapInfo'[m]
  BY DEF ReadingSent, LooksUp, RateUsed, Blind, Put
<1> HIDE DEF volume, used, blind, sure
<1>6. /\ Dictionaries'
      /\ OnPanel' = OnPanel \cup {m}
      /\ currentPours'[m] = volume
      /\ \A x \in OnPanel : x # m => currentPours'[x] = currentPours[x]
      /\ m \notin OnPanel => pourBaselines'[m] = volume
      /\ \A x \in OnPanel : pourBaselines'[x] = pourBaselines[x]
  BY <1>3, <1>4, UpdateKeeps DEF PanelInv
<1>7. Drawn'
  BY <1>4 DEF handlePourUpdate, renderPourPanel, Drawn
<1>8. /\ began \in [OnPanel -> Beginnings]
      /\ OnPanel \subseteq Meters
      /\ reading \in [Meters -> Nat] /\ rate \in [Meters -> Nat]
  BY DEF PanelInv, Books, Dictionaries, OnPanel, Range
<1>9. /\ began' \in [OnPanel' -> Beginnings]
      /\ \A x \in OnPanel : x # m => began'[x] = began[x]
      /\ m \notin OnPanel => began'[m] = [at |-> reading'[m], sure |-> sure, blind |-> blind]
      /\ m \in OnPanel => /\ began'[m].at = began[m].at
                          /\ began'[m].sure = began[m].sure
                          /\ began'[m].blind = blind
  <2>1. CASE m \in OnPanel
    <3>1. began[m] \in Beginnings
      BY <1>8, <2>1
    <3>2. [began[m] EXCEPT !.blind = blind]
            = [at |-> began[m].at, sure |-> began[m].sure, blind |-> blind]
      BY <3>1 DEF Beginnings
    <3>3. began' = Put(began, m, [at |-> began[m].at, sure |-> began[m].sure,
                                  blind |-> blind])
      BY <1>4, <2>1, <3>2
    <3>4. [at |-> began[m].at, sure |-> began[m].sure, blind |-> blind] \in Beginnings
      BY <1>3, <3>1 DEF Beginnings
    <3> QED
      BY <1>6, <1>8, <2>1, <3>3, <3>4 DEF Put
  <2>2. CASE m \notin OnPanel
    <3> DEFINE new == [at |-> reading'[m], sure |-> sure, blind |-> blind]
    <3>1. began' = Put(began, m, new)
      BY <1>4, <2>2
    <3>2. new \in Beginnings
      BY <1>1, <1>3, <1>4 DEF Beginnings
    <3> HIDE DEF new
    <3>3. /\ began' \in [OnPanel' -> Beginnings]
          /\ \A x \in OnPanel : x # m => began'[x] = began[x]
          /\ began'[m] = new
      BY <1>6, <1>8, <2>2, <3>1, <3>2 DEF Put
    <3> QED
      BY <2>2, <3>3 DEF new
  <2> QED
    BY <2>1, <2>2
<1>10. ASSUME NEW x \in OnPanel', began'[x].sure
       PROVE  SureBooks(x)'
  <2>1. CASE x # m
    <3>1. x \in OnPanel /\ x \in Meters /\ began[x].sure
      BY <1>6, <1>8, <1>9, <1>10, <2>1
    <3> QED
      BY <1>1, <1>2, <1>6, <1>9, <2>1, <3>1, CardKept
  <2>2. CASE x = m /\ m \notin OnPanel
    <3>1. used = rate[m] /\ began'[m].at = reading'[m] /\ reading'[m] \in Nat
      <4>1. began'[m].sure = sure /\ began'[m].at = reading'[m]
        BY <1>9, <2>2
      <4> QED
        BY <1>1, <1>4, <1>10, <2>2, <4>1
    <3>2. m \in DOMAIN tapInfo' => tapInfo'[m] = rate'[m]
      BY <1>1, <1>5, <3>1
    <3>3. volume = reading'[m] * rate'[m]
      BY <1>1, <1>3, <3>1
    <3>4. IsSince(m, currentPours[m])'
      BY <1>6, <3>1, <3>3 DEF IsSince
    <3> QED
      BY <1>6, <2>2, <3>1, <3>2, <3>3, <3>4 DEF SureBooks
  <2>3. CASE x = m /\ m \in OnPanel
    <3>1. began[m].sure /\ SureBooks(m)
      BY <1>9, <1>10, <2>3 DEF PanelInv, Books
    <3>2. m \in DOMAIN tapInfo' => tapInfo'[m] = rate'[m]
      BY <1>1, <1>2, <3>1 DEF SureBooks
    <3>3. began[m].at \in Nat /\ reading[m] \in Nat /\ reading'[m] \in Nat
      BY <1>1, <1>8, <2>3 DEF Beginnings
    <3>4. began'[m].at <= reading'[m]
      BY <1>1, <1>9, <2>3, <3>1, <3>3 DEF SureBooks
    <3>5. pourBaselines'[m] = began'[m].at * rate'[m]
      BY <1>1, <1>6, <1>9, <2>3, <3>1 DEF SureBooks
    <3>6. ASSUME ~began'[m].blind PROVE IsSince(m, currentPours[m])'
      <4>1. used = rate'[m]
        BY <1>5, <1>9, <2>3, <3>2, <3>6
      <4>2. currentPours'[m] = reading'[m] * rate'[m]
        BY <1>3, <1>6, <4>1
      <4> QED
        BY <3>3, <3>4, <4>2 DEF IsSince
    <3> QED
      BY <2>3, <3>2, <3>4, <3>5, <3>6 DEF SureBooks
  <2> QED
    BY <2>1, <2>2, <2>3
<1>11. Books'
  BY <1>1, <1>2, <1>8, <1>9, <1>10 DEF Books
<1> QED
  BY <1>6, <1>7, <1>11 DEF PanelInv

\* The end of a pour, from the server or from the settle timer.
LEMMA EndKeeps ==
  ASSUME PanelInv, NEW m, handlePourEnded(m), UNCHANGED <<reading, rate, tapInfo, began>>
  PROVE  PanelInv'
<1>1. Dictionaries' /\ UNCHANGED <<pourOrder, currentPours, pourBaselines>>
  BY EndedKeeps DEF PanelInv
<1>2. Drawn'
  BY DEF handlePourEnded, renderPourPanel, Drawn
<1>3. Books'
  BY <1>1 DEF PanelInv, Books, SureBooks, IsSince, OnPanel
<1> QED
  BY <1>1, <1>2, <1>3 DEF PanelInv

\* A card that goes.
LEMMA UpdateTimeoutKeeps ==
  ASSUME PanelInv, NEW m, UpdateTimeout(m)
  PROVE  PanelInv'
<1>1. /\ m \in OnPanel /\ removePour(m) /\ began' = Without(began, m)
      /\ UNCHANGED <<reading, rate, tapInfo>>
  BY DEF UpdateTimeout, PanelInv, Dictionaries, listenerVars
<1>2. /\ Dictionaries'
      /\ OnPanel' = OnPanel \ {m}
      /\ \A x \in OnPanel \ {m} : /\ currentPours'[x] = currentPours[x]
                                  /\ pourBaselines'[x] = pourBaselines[x]
  BY <1>1, RemoveKeeps DEF PanelInv
<1>3. Drawn'
  BY <1>1 DEF removePour, renderPourPanel, Drawn
<1>4. /\ began' \in [OnPanel \ {m} -> Beginnings]
      /\ \A x \in OnPanel \ {m} : began'[x] = began[x]
  BY <1>1 DEF PanelInv, Books, Without, Restrict
<1>5. ASSUME NEW x \in OnPanel \ {m}, began'[x].sure PROVE SureBooks(x)'
  <2>1. began[x].sure /\ x \in OnPanel' /\ x \in Meters
    <3>1. OnPanel \subseteq Meters
      BY DEF PanelInv, Dictionaries, OnPanel, Range
    <3> QED
      BY <1>2, <1>4, <1>5, <3>1
  <2>2. reading[x] \in Nat /\ reading[x] >= reading[x]
    BY <2>1 DEF PanelInv, Books
  <2> QED
    BY <1>1, <1>2, <1>4, <2>1, <2>2, CardKept
<1>6. Books'
  BY <1>1, <1>2, <1>4, <1>5 DEF PanelInv, Books
<1> QED
  BY <1>2, <1>3, <1>6 DEF PanelInv

\* A page that is loaded anew starts from nothing.
LEMMA ReloadKeeps ==
  ASSUME PanelInv, PageReload
  PROVE  PanelInv'
<1>1. /\ pourOrder' = <<>> /\ OnPanel' = {}
      /\ IsInjective(pourOrder') /\ pourOrder' \in Seq(Meters)
  BY DEF PageReload, OnPanel, Range, IsInjective
<1>2. DOMAIN Nothing = {} /\ \A V : Nothing \in [{} -> V]
  BY DEF Nothing
<1>3. Dictionaries'
  BY <1>1, <1>2 DEF PageReload, Dictionaries
<1>4. Drawn'
  BY DEF PageReload, Drawn, Cards
<1>5. Books'
  BY <1>1, <1>2 DEF PanelInv, PageReload, Books, listenerVars
<1> QED
  BY <1>3, <1>4, <1>5 DEF PanelInv

LEMMA PanelNextInv == PanelInv /\ [Next]_vars => PanelInv'
<1> SUFFICES ASSUME PanelInv, [Next]_vars PROVE PanelInv'
  OBVIOUS
<1>0. /\ reading \in [Meters -> Nat] /\ \A x \in Meters : reading[x] >= reading[x]
      /\ tapInfo \in [DOMAIN tapInfo -> Nat]
  BY DEF PanelInv, Books
<1>1. ASSUME NEW m \in Meters, NEW asked \in BOOLEAN,
             ReadingThrottled(m) \/ ReadingUnsent(m, asked) \/ (ReadingSent(m, asked) /\ ~connected)
      PROVE  PanelInv'
  <2>1. /\ Reads(m) /\ UNCHANGED pageVars
        /\ LooksUp(m, asked) \/ UNCHANGED tapInfo
    BY <1>1 DEF ReadingThrottled, ReadingUnsent, ReadingSent
  <2>2. /\ tapInfo' \in [DOMAIN tapInfo' -> Nat]
        /\ \A x \in DOMAIN tapInfo' : \/ x \in DOMAIN tapInfo /\ tapInfo'[x] = tapInfo[x]
                                     \/ tapInfo'[x] = rate[x]
    BY <1>0, <2>1, LooksUpKeeps DEF PanelInv
  <2> QED
    BY <2>1, <2>2, ReadsKeeps, PageKept DEF PanelInv
<1>2. ASSUME NEW m \in Meters, NEW asked \in BOOLEAN, ReadingSent(m, asked), connected
      PROVE  PanelInv'
  BY <1>2, SentKeeps
<1>3. ASSUME NEW m \in Meters, PourRecorded(m) \/ SettleTimeout(m) PROVE PanelInv'
  <2>1. handlePourEnded(m) /\ UNCHANGED <<reading, rate, tapInfo, began>>
    BY <1>3 DEF PourRecorded, SettleTimeout, handlePourEnded, listenerVars
  <2> QED
    BY <2>1, EndKeeps
<1>4. ASSUME NEW m \in Meters, UpdateTimeout(m) PROVE PanelInv'
  BY <1>4, UpdateTimeoutKeeps
<1>5. CASE PageReload
  BY <1>5, ReloadKeeps
<1>6. CASE \/ \E m \in Meters : ThrottleEnds(m)
           \/ ListenerRestarts \/ SocketOpens \/ SocketCloses \/ UNCHANGED vars
  <2>1. UNCHANGED <<pageVars, reading, rate>> /\ (tapInfo' = tapInfo \/ tapInfo' = Nothing)
    BY <1>6 DEF ThrottleEnds, ListenerRestarts, SocketOpens, SocketCloses, vars, listenerVars
  <2>2. Nothing \in [DOMAIN Nothing -> Nat] /\ DOMAIN Nothing = {}
    BY DEF Nothing
  <2> QED
    BY <1>0, <2>1, <2>2, PageKept
<1>7. CASE CarouselTurns \/ SlideEnds
  <2>1. UNCHANGED <<reading, rate, tapInfo, pourVars, panel, began>>
    BY <1>7 DEF CarouselTurns, SlideEnds, listenerVars
  <2> QED
    BY <2>1 DEF PanelInv, Dictionaries, Drawn, Books, SureBooks, IsSince, OnPanel, pourVars
<1>8. ASSUME NEW m \in Meters, Calibrate(m) PROVE PanelInv'
  BY <1>8, CalibrateKeeps
<1> QED
  BY <1>1, <1>2, <1>3, <1>4, <1>5, <1>6, <1>7, <1>8 DEF Next

\* The script, the listener and the timers keep PanelInv, whatever comes when.
THEOREM PanelInvariance == Spec => []PanelInv
BY PanelInitInv, PanelNextInv, PTL DEF Spec

-----------------------------------------------------------------------------
(* What the panel shows *)

\* The cards drawn of dictionaries that are in step.
LEMMA CardsFacts ==
  ASSUME NEW order \in Seq(Meters), NEW data \in [Range(order) -> Nat],
         NEW baselines, NEW settled
  PROVE  LET cards == Cards(order, data, baselines, settled)
         IN  /\ DOMAIN cards = 1 .. Len(order)
             /\ [i \in DOMAIN cards |-> cards[i].tap] = order
             /\ \A i \in 1 .. Len(order) :
                  /\ order[i] \in Range(order)
                  /\ cards[i] = Card(order[i], data, baselines, settled)
<1> DEFINE cards == Cards(order, data, baselines, settled)
<1>1. DOMAIN order = 1 .. Len(order)
  OBVIOUS
<1>2. DOMAIN cards = 1 .. Len(order)
  BY DEF Cards
<1>3. ASSUME NEW i \in 1 .. Len(order)
      PROVE  /\ order[i] \in Range(order)
             /\ cards[i] = Card(order[i], data, baselines, settled)
             /\ cards[i].tap = order[i]
  <2>1. order[i] \in Range(order)
    BY <1>1 DEF Range
  <2>2. cards[i] = Card(order[i], data, baselines, settled)
    BY <2>1 DEF Cards
  <2>3. Card(order[i], data, baselines, settled).tap = order[i]
    BY DEF Card
  <2> HIDE DEF cards
  <2> QED
    BY <2>1, <2>2, <2>3
<1> HIDE DEF cards
<1>4. \A i \in 1 .. Len(order) : cards[i].tap = order[i]
  BY <1>3
<1>5. [i \in DOMAIN cards |-> cards[i].tap] = order
  BY <1>1, <1>2, <1>4
<1> QED
  BY <1>2, <1>3, <1>5 DEF cards

\* The same, of the panel.
LEMMA PanelFacts ==
  ASSUME PanelInv
  PROVE  /\ DOMAIN panel = 1 .. Len(pourOrder)
         /\ [i \in DOMAIN panel |-> panel[i].tap] = pourOrder
         /\ \A i \in 1 .. Len(pourOrder) :
              /\ pourOrder[i] \in OnPanel
              /\ panel[i].tap = pourOrder[i]
              /\ panel[i].volume = currentPours[pourOrder[i]] - pourBaselines[pourOrder[i]]
              /\ panel[i].poured = pourSettled[pourOrder[i]]
<1>1. /\ pourOrder \in Seq(Meters)
      /\ currentPours \in [Range(pourOrder) -> Nat]
      /\ pourBaselines \in [Range(pourOrder) -> Nat]
      /\ pourSettled \in [DOMAIN pourSettled -> BOOLEAN]
      /\ Range(pourOrder) \subseteq DOMAIN pourSettled
      /\ panel = Cards(pourOrder, currentPours, pourBaselines, pourSettled)
  BY DEF PanelInv, Dictionaries, Drawn, OnPanel
<1>2. /\ DOMAIN panel = 1 .. Len(pourOrder)
      /\ [i \in DOMAIN panel |-> panel[i].tap] = pourOrder
      /\ \A i \in 1 .. Len(pourOrder) :
           /\ pourOrder[i] \in Range(pourOrder)
           /\ panel[i] = Card(pourOrder[i], currentPours, pourBaselines, pourSettled)
  BY <1>1, CardsFacts
<1>3. ASSUME NEW i \in 1 .. Len(pourOrder)
      PROVE  /\ panel[i].tap = pourOrder[i]
             /\ panel[i].volume = currentPours[pourOrder[i]] - pourBaselines[pourOrder[i]]
             /\ panel[i].poured = pourSettled[pourOrder[i]]
  <2>1. pourOrder[i] \in Range(pourOrder) /\ pourOrder[i] \in DOMAIN pourSettled
    BY <1>1, <1>2
  <2> QED
    BY <1>1, <1>2, <2>1 DEF Card
<1> QED
  BY <1>2, <1>3 DEF OnPanel

\* handlePourUpdate, handlePourEnded and removePourCard: the dictionaries of the script,
\* the timers and the cards on the page stay in step, whatever messages and timers come.
THEOREM CardsStayInStep == Spec => []CardsInStep
<1>1. PanelInv => CardsInStep
  <2> SUFFICES ASSUME PanelInv PROVE CardsInStep
    OBVIOUS
  <2>1. /\ DOMAIN panel = 1 .. Len(pourOrder)
        /\ \A i \in 1 .. Len(pourOrder) : panel[i].tap = pourOrder[i]
    BY PanelFacts
  <2>2. Range(pourOrder) \subseteq Meters
    BY DEF PanelInv, Dictionaries, Range
  <2> QED
    BY <2>1, <2>2 DEF PanelInv, Dictionaries, Drawn, OnPanel, CardsInStep
<1> QED
  BY <1>1, PanelInvariance, PTL

\* Between a and c ticks, b - a of them make no more than all.
LEMMA DifferenceOfTicks ==
  ASSUME NEW a \in Nat, NEW b \in Nat, NEW c \in Nat, NEW r \in Nat, a <= b, b <= c
  PROVE  0 <= b * r - a * r /\ b * r - a * r <= (c - a) * r
<1> DEFINE i == b - a
           j == c - b
<1>1. i \in Nat /\ j \in Nat /\ b = a + i /\ c - a = i + j
  OBVIOUS
<1> HIDE DEF i, j
<1>2. b * r = a * r + i * r /\ (c - a) * r = i * r + j * r
  BY <1>1
<1>3. a * r \in Nat /\ i * r \in Nat /\ j * r \in Nat
  BY <1>1
<1> QED
  BY <1>2, <1>3

\* From the meter's readings to the card: though the listener drops readings and the page
\* subtracts a baseline of its own, no card shows more than has flowed since it appeared.
THEOREM CardsShowTheirPours == Spec => []CardShowsItsPour
<1>1. PanelInv => CardShowsItsPour
  <2> SUFFICES ASSUME PanelInv, NEW i \in DOMAIN panel,
                      began[panel[i].tap].sure, ~began[panel[i].tap].blind
               PROVE  /\ 0 <= panel[i].volume
                      /\ panel[i].volume <= (reading[panel[i].tap] - began[panel[i].tap].at)
                                              * rate[panel[i].tap]
    BY DEF CardShowsItsPour
  <2> DEFINE m == panel[i].tap
  <2>1. /\ m \in OnPanel
        /\ panel[i].volume = currentPours[m] - pourBaselines[m]
    BY PanelFacts
  <2>2. SureBooks(m)
    BY <2>1 DEF PanelInv, Books
  <2>3. began[m].at \in Nat /\ reading[m] \in Nat /\ rate[m] \in Nat
    BY <2>1 DEF PanelInv, Books, Beginnings, Dictionaries, OnPanel, Range
  <2>4. PICK k \in Nat : /\ began[m].at <= k /\ k <= reading[m]
                         /\ currentPours[m] = k * rate[m]
    BY <2>2 DEF SureBooks, IsSince
  <2>5. panel[i].volume = k * rate[m] - began[m].at * rate[m]
    BY <2>1, <2>2, <2>4 DEF SureBooks
  <2> HIDE DEF m
  <2>6. /\ 0 <= panel[i].volume
        /\ panel[i].volume <= (reading[m] - began[m].at) * rate[m]
    BY <2>3, <2>4, <2>5, DifferenceOfTicks
  <2> QED
    BY <2>6 DEF m
<1> QED
  BY <1>1, PanelInvariance, PTL

-----------------------------------------------------------------------------
(* The panel implements PourCards *)

ShownNow == [i \in DOMAIN panel |-> panel[i].tap]

PouredNow == {panel[i].tap : i \in {j \in DOMAIN panel : panel[j].poured}}

SettledCards(order, settled) == {m \in Range(order) : settled[m]}

\* The stack of cards, in terms of the dictionaries.
LEMMA StackFacts ==
  PanelInv => ShownNow = pourOrder /\ PouredNow = SettledCards(pourOrder, pourSettled)
<1> SUFFICES ASSUME PanelInv
             PROVE  ShownNow = pourOrder /\ PouredNow = SettledCards(pourOrder, pourSettled)
  OBVIOUS
<1>1. /\ DOMAIN panel = 1 .. Len(pourOrder)
      /\ ShownNow = pourOrder
      /\ \A i \in 1 .. Len(pourOrder) :
           panel[i].tap = pourOrder[i] /\ panel[i].poured = pourSettled[pourOrder[i]]
  BY PanelFacts DEF ShownNow
<1>2. DOMAIN pourOrder = 1 .. Len(pourOrder)
  BY DEF PanelInv, Dictionaries
<1> QED
  BY <1>1, <1>2 DEF PouredNow, SettledCards, Range

LEMMA StackFactsNext ==
  (PanelInv => ShownNow = pourOrder /\ PouredNow = SettledCards(pourOrder, pourSettled))'
BY StackFacts, PTL

\* What both modules take from SequencesExt is the same.
LEMMA SameOperators ==
  ASSUME NEW s, NEW m
  PROVE  Stack!Range(s) = Range(s) /\ Stack!RemoveFirst(s, m) = RemoveFirst(s, m)
BY DEF Range, Stack!Range, RemoveFirst, Stack!RemoveFirst, RemoveAt, Stack!RemoveAt,
       SelectInSeq, Stack!SelectInSeq, Min, Stack!Min

\* The steps of PourCards, said of the panel.
LEMMA StackSteps ==
  ASSUME NEW m
  PROVE  /\ Stack!Appears(m) <=> /\ m \notin Range(ShownNow)
                                 /\ ShownNow' = Append(ShownNow, m)
                                 /\ PouredNow' = PouredNow
         /\ Stack!Flows(m) <=> /\ m \in Range(ShownNow)
                               /\ PouredNow' = PouredNow \ {m}
                               /\ ShownNow' = ShownNow
         /\ Stack!Stops(m) <=> /\ m \in Range(ShownNow)
                               /\ PouredNow' = PouredNow \cup {m}
                               /\ ShownNow' = ShownNow
         /\ Stack!Vanishes(m) <=> /\ m \in PouredNow
                                  /\ ShownNow' = RemoveFirst(ShownNow, m)
                                  /\ PouredNow' = PouredNow \ {m}
BY SameOperators DEF Stack!Appears, Stack!Flows, Stack!Stops, Stack!Vanishes, ShownNow, PouredNow

\* A step of the panel is one of the stack of cards, or changes nothing in it.
LEMMA PanelStepsAreCardSteps ==
  ASSUME PanelInv, PanelInv', [Next]_vars
  PROVE  [Stack!CardsNext]_(Stack!cardVars)
<1>0. /\ ShownNow = pourOrder /\ PouredNow = SettledCards(pourOrder, pourSettled)
      /\ ShownNow' = pourOrder' /\ PouredNow' = SettledCards(pourOrder', pourSettled')
  BY StackFacts, StackFactsNext
<1>a. Dictionaries /\ Dictionaries'
  BY DEF PanelInv
<1>1. ASSUME NEW m \in Meters, NEW volume, handlePourUpdate(m, volume)
      PROVE  Stack!CardsNext
  <2>1. \A x \in OnPanel : x # m => pourSettled'[x] = pourSettled[x]
    BY <1>1, <1>a DEF handlePourUpdate, Put, Dictionaries
  <2>2. pourSettled'[m] = FALSE
    BY <1>1 DEF handlePourUpdate, Put
  <2>3. CASE m \in OnPanel
    <3>1. pourOrder' = pourOrder
      BY <1>1, <2>3 DEF handlePourUpdate, OnPanel
    <3>2. SettledCards(pourOrder', pourSettled') = SettledCards(pourOrder, pourSettled) \ {m}
      BY <2>1, <2>2, <3>1 DEF SettledCards, OnPanel
    <3>3. Stack!Flows(m)
      BY <1>0, <2>3, <3>1, <3>2, StackSteps DEF OnPanel
    <3> QED
      BY <3>3 DEF Stack!CardsNext
  <2>4. CASE m \notin OnPanel
    <3>1. pourOrder' = Append(pourOrder, m)
      BY <1>1, <2>4 DEF handlePourUpdate, OnPanel
    <3>2. Range(pourOrder') = OnPanel \cup {m}
      BY <1>a, <2>4, <3>1, AppendFacts DEF Dictionaries, OnPanel
    <3>3. SettledCards(pourOrder', pourSettled') = SettledCards(pourOrder, pourSettled)
      BY <2>1, <2>2, <2>4, <3>2 DEF SettledCards, OnPanel
    <3>4. Stack!Appears(m)
      BY <1>0, <2>4, <3>1, <3>3, StackSteps DEF OnPanel
    <3> QED
      BY <3>4 DEF Stack!CardsNext
  <2> QED
    BY <2>3, <2>4
<1>2. ASSUME NEW m \in Meters, handlePourEnded(m)
      PROVE  Stack!CardsNext \/ UNCHANGED Stack!cardVars
  <2>1. \A x \in OnPanel : x # m => pourSettled'[x] = pourSettled[x]
    BY <1>2, <1>a DEF handlePourEnded, Put, Dictionaries
  <2>2. pourSettled'[m] = TRUE /\ pourOrder' = pourOrder
    BY <1>2 DEF handlePourEnded, Put
  <2>3. CASE m \in OnPanel
    <3>1. SettledCards(pourOrder', pourSettled') = SettledCards(pourOrder, pourSettled) \cup {m}
      BY <2>1, <2>2, <2>3 DEF SettledCards, OnPanel
    <3>2. Stack!Stops(m)
      BY <1>0, <2>2, <2>3, <3>1, StackSteps DEF OnPanel
    <3> QED
      BY <3>2 DEF Stack!CardsNext
  <2>4. CASE m \notin OnPanel
    <3>1. SettledCards(pourOrder', pourSettled') = SettledCards(pourOrder, pourSettled)
      BY <2>1, <2>2, <2>4 DEF SettledCards, OnPanel
    <3> QED
      BY <1>0, <2>2, <3>1 DEF Stack!cardVars, ShownNow, PouredNow
  <2> QED
    BY <2>3, <2>4
<1>3. ASSUME NEW m \in Meters, UpdateTimeout(m)
      PROVE  Stack!CardsNext
  <2>1. /\ m \in OnPanel /\ m \notin settleTimers
        /\ pourOrder' = RemoveFirst(pourOrder, m)
        /\ pourSettled' = Without(pourSettled, m)
    BY <1>3, <1>a DEF UpdateTimeout, removePour, Dictionaries
  <2>2. m \in SettledCards(pourOrder, pourSettled)
    BY <1>a, <2>1 DEF Dictionaries, SettledCards, OnPanel
  <2>3. Range(pourOrder') = OnPanel \ {m}
    BY <1>a, <2>1, RemoveFacts DEF Dictionaries, OnPanel
  <2>4. \A x \in OnPanel \ {m} : pourSettled'[x] = pourSettled[x]
    BY <1>a, <2>1 DEF Dictionaries, Without, Restrict
  <2>5. SettledCards(pourOrder', pourSettled') = SettledCards(pourOrder, pourSettled) \ {m}
    BY <2>3, <2>4 DEF SettledCards, OnPanel
  <2>6. Stack!Vanishes(m)
    BY <1>0, <2>1, <2>2, <2>5, StackSteps
  <2> QED
    BY <2>6 DEF Stack!CardsNext
<1>4. CASE PageReload
  <2>1. pourOrder' = <<>> /\ SettledCards(pourOrder', pourSettled') = {}
    BY <1>4 DEF PageReload, SettledCards, Range
  <2>2. Stack!Blank
    BY <1>0, <2>1 DEF Stack!Blank, ShownNow, PouredNow
  <2> QED
    BY <2>2 DEF Stack!CardsNext
<1>5. CASE UNCHANGED panel
  BY <1>5 DEF Stack!cardVars
<1>6. ASSUME NEW m \in Meters, NEW asked \in BOOLEAN, ReadingSent(m, asked)
      PROVE  [Stack!CardsNext]_(Stack!cardVars)
  <2>1. handlePourUpdate(m, VolumeOf(m, asked)) \/ UNCHANGED panel
    BY <1>6 DEF ReadingSent, pageVars
  <2> QED
    BY <1>1, <1>5, <2>1
<1>7. ASSUME NEW m \in Meters, PourRecorded(m) \/ SettleTimeout(m)
      PROVE  [Stack!CardsNext]_(Stack!cardVars)
  <2>1. handlePourEnded(m)
    BY <1>7 DEF PourRecorded, SettleTimeout, handlePourEnded
  <2> QED
    BY <1>2, <2>1
<1>8. CASE \/ \E m \in Meters : \/ ReadingThrottled(m) \/ ThrottleEnds(m) \/ Calibrate(m)
                                \/ \E asked \in BOOLEAN : ReadingUnsent(m, asked)
           \/ ListenerRestarts \/ SocketOpens \/ SocketCloses
           \/ CarouselTurns \/ SlideEnds \/ UNCHANGED vars
  <2>1. UNCHANGED panel
    BY <1>8 DEF ReadingThrottled, ThrottleEnds, Calibrate, ReadingUnsent, ListenerRestarts,
                SocketOpens, SocketCloses, CarouselTurns, SlideEnds, vars, pageVars
  <2> QED
    BY <1>5, <2>1
<1> QED
  BY <1>3, <1>4, <1>6, <1>7, <1>8 DEF Next

\* ImplementsPourCards: whatever readings, ends, timeouts, faults and reloads do to the
\* panel, somebody in front of it sees cards come and go as PourCards says.
THEOREM PanelImplementsPourCards == Spec => ImplementsPourCards
<1>1. Init => Stack!CardsInit
  BY DEF Init, Stack!CardsInit
<1>2. PanelInv /\ PanelInv' /\ [Next]_vars => [Stack!CardsNext]_(Stack!cardVars)
  BY PanelStepsAreCardSteps
<1> QED
  BY <1>1, <1>2, PanelInvariance, PTL DEF Spec, ImplementsPourCards, Stack!CardsSpec

-----------------------------------------------------------------------------
(* The cards of taps *)

Types ==
  /\ tapKeg \in [Taps -> Kegs \cup {NoKeg}]
  /\ left \in [Kegs -> Int]
  /\ \A k \in Kegs : left[k] <= Full
  /\ request \in [Requests -> RequestStates]
  /\ inbox \in Seq(Messages)
  /\ shownKeg \in [Taps -> Kegs \cup {NoKeg}]
  /\ shownLeft \in [Taps -> 0 .. Full]
  /\ amiss \in BOOLEAN /\ unheard \in BOOLEAN

Announcing(r) == request[r].phase = "changed"

KegsInv ==
  ~unheard /\ shownKeg # tapKeg => (\E r \in Requests : Announcing(r)) \/ ReloadUnder(inbox)

\* The volume of a keg once the pours that have been pushed commit.
Coming(k) ==
  IF \E r \in Requests : request[r].phase = "pushed" /\ request[r].keg = k
  THEN left[k] - 1 ELSE left[k]

\* The page shows it for tap t, or will when it has handled its messages.
Promised(t) ==
  IF inbox = <<>> THEN shownLeft[t] = Least(Coming(tapKeg[t]))
  ELSE LET last == inbox[Len(inbox)]
       IN  t \in DOMAIN last.taps /\ last.taps[t] = Least(Coming(tapKeg[t]))

Unsent(r) == request[r].phase \in {"poured", "built", "measured", "changed"}

OneAtATime == \A q, r \in Requests : Idle(q) \/ Idle(r) \/ q = r

MessagesAreTrue ==
  \A r \in Requests :
    request[r].phase \in {"built", "measured"} => request[r].payload = Payload(SeenBy(r))

NewestIsTrue ==
  page = "live" /\ ~ReloadUnder(inbox) /\ (\A r \in Requests : ~Unsent(r)) =>
    \A t \in Taps : tapKeg[t] # NoKeg /\ shownKeg[t] = tapKeg[t] => Promised(t)

VolumesInv ==
  ~amiss =>
    /\ OneAtATime
    /\ page = "live" => inGroup
    /\ MessagesAreTrue
    /\ NewestIsTrue

CardsInv == Types /\ KegsInv /\ VolumesInv

-----------------------------------------------------------------------------
(* Messages *)

LEMMA ReloadIsMessage == Reload \in Messages /\ IsReload(Reload)
BY DEF Reload, Messages, IsReload

\* build_tap_state_payload, for volumes that fit a keg.
LEMMA PayloadFacts ==
  ASSUME tapKeg \in [Taps -> Kegs \cup {NoKeg}],
         NEW volumes \in [Kegs -> Int], \A k \in Kegs : volumes[k] <= Full
  PROVE  /\ Payload(volumes) \in Payloads
         /\ \A t \in Taps : tapKeg[t] # NoKeg =>
              /\ tapKeg[t] \in Kegs
              /\ t \in DOMAIN Payload(volumes)
              /\ Payload(volumes)[t] = Least(volumes[tapKeg[t]])
<1> DEFINE D == {u \in Taps : tapKeg[u] # NoKeg}
<1>1. \A t \in D : tapKeg[t] \in Kegs /\ Least(volumes[tapKeg[t]]) \in 0 .. Full
  BY TapCardsAssumption DEF Least
<1>2. Payload(volumes) = [t \in D |-> Least(volumes[tapKeg[t]])]
  BY DEF Payload
<1>3. Payload(volumes) \in [D -> 0 .. Full]
  BY <1>1, <1>2
<1>4. D \in SUBSET Taps
  OBVIOUS
<1>5. Payload(volumes) \in Payloads
  BY <1>3, <1>4 DEF Payloads
<1> QED
  BY <1>1, <1>2, <1>5

LEMMA StateIsMessage ==
  ASSUME NEW payload \in Payloads
  PROVE  /\ TapState(payload) \in Messages
         /\ ~IsReload(TapState(payload))
         /\ TapState(payload).taps = payload
BY DEF TapState, Messages, IsReload

LEMMA MessageFacts ==
  ASSUME NEW message \in Messages, ~IsReload(message)
  PROVE  message.taps \in Payloads
BY DEF Messages, IsReload

LEMMA NoReloadUnderNothing == ~ReloadUnder(<<>>)
BY DEF ReloadUnder

\* Sending.
LEMMA AppendReload ==
  ASSUME NEW messages \in Seq(Messages), NEW message \in Messages
  PROVE  /\ Append(messages, message) \in Seq(Messages)
         /\ ReloadUnder(Append(messages, message)) <=> ReloadUnder(messages) \/ IsReload(message)
         /\ Append(messages, message) # <<>>
         /\ Append(messages, message)[Len(Append(messages, message))] = message
<1> DEFINE all == Append(messages, message)
           n == Len(messages)
<1>1. /\ all \in Seq(Messages)
      /\ Len(all) = n + 1 /\ DOMAIN all = 1 .. n + 1
      /\ DOMAIN messages = 1 .. n /\ n \in Nat
      /\ \A i \in 1 .. n : all[i] = messages[i]
      /\ all[n + 1] = message
      /\ all # <<>>
  OBVIOUS
<1> HIDE DEF all, n
<1>2. ReloadUnder(messages) => ReloadUnder(all)
  <2> SUFFICES ASSUME NEW i \in 1 .. n, IsReload(messages[i]) PROVE ReloadUnder(all)
    BY <1>1 DEF ReloadUnder
  <2>1. i \in DOMAIN all /\ all[i] = messages[i]
    BY <1>1
  <2> QED
    BY <2>1 DEF ReloadUnder
<1>3. IsReload(message) => ReloadUnder(all)
  BY <1>1, n + 1 \in 1 .. n + 1 DEF ReloadUnder
<1>4. ReloadUnder(all) => ReloadUnder(messages) \/ IsReload(message)
  <2> SUFFICES ASSUME NEW i \in 1 .. n + 1, IsReload(all[i])
               PROVE  ReloadUnder(messages) \/ IsReload(message)
    BY <1>1 DEF ReloadUnder
  <2>1. CASE i \in 1 .. n
    BY <1>1, <2>1 DEF ReloadUnder
  <2>2. CASE i = n + 1
    BY <1>1, <2>2
  <2> QED
    BY <1>1, <2>1, <2>2
<1> QED
  BY <1>1, <1>2, <1>3, <1>4 DEF all

\* Receiving.
LEMMA TailReload ==
  ASSUME NEW messages \in Seq(Messages), messages # <<>>, ~IsReload(Head(messages))
  PROVE  /\ Head(messages) \in Messages
         /\ Tail(messages) \in Seq(Messages)
         /\ ReloadUnder(Tail(messages)) <=> ReloadUnder(messages)
         /\ Tail(messages) = <<>> => messages[Len(messages)] = Head(messages)
         /\ Tail(messages) # <<>> => Tail(messages)[Len(Tail(messages))] = messages[Len(messages)]
<1> DEFINE rest == Tail(messages)
           n == Len(messages)
<1>1. /\ rest \in Seq(Messages) /\ Head(messages) \in Messages
      /\ Len(rest) = n - 1 /\ DOMAIN rest = 1 .. n - 1
      /\ DOMAIN messages = 1 .. n /\ n \in Nat /\ n >= 1
      /\ \A i \in 1 .. n - 1 : rest[i] = messages[i + 1]
      /\ Head(messages) = messages[1]
      /\ rest = <<>> <=> n = 1
  <2>1. /\ rest \in Seq(Messages) /\ Head(messages) \in Messages
        /\ Len(rest) = n - 1
        /\ \A i \in 1 .. Len(rest) : rest[i] = messages[i + 1]
    BY HeadTailProperties
  <2>2. n \in Nat /\ n >= 1 /\ DOMAIN messages = 1 .. n /\ Head(messages) = messages[1]
    OBVIOUS
  <2> HIDE DEF rest, n
  <2>3. DOMAIN rest = 1 .. n - 1
    BY <2>1
  <2>4. rest = <<>> <=> n = 1
    BY <2>1, <2>2
  <2> QED
    BY <2>1, <2>2, <2>3, <2>4
<1> HIDE DEF rest, n
<1>2. ReloadUnder(rest) => ReloadUnder(messages)
  <2> SUFFICES ASSUME NEW i \in 1 .. n - 1, IsReload(rest[i]) PROVE ReloadUnder(messages)
    BY <1>1 DEF ReloadUnder
  <2>1. i + 1 \in DOMAIN messages /\ rest[i] = messages[i + 1]
    BY <1>1
  <2> QED
    BY <2>1 DEF ReloadUnder
<1>3. ReloadUnder(messages) => ReloadUnder(rest)
  <2> SUFFICES ASSUME NEW i \in 1 .. n, IsReload(messages[i]) PROVE ReloadUnder(rest)
    BY <1>1 DEF ReloadUnder
  <2>1. i # 1
    BY <1>1
  <2>2. i - 1 \in DOMAIN rest /\ rest[i - 1] = messages[i]
    BY <1>1, <2>1
  <2> QED
    BY <2>2 DEF ReloadUnder
<1>4. rest = <<>> => messages[n] = Head(messages)
  BY <1>1
<1>5. rest # <<>> => rest[Len(rest)] = messages[n]
  <2> SUFFICES ASSUME rest # <<>> PROVE rest[n - 1] = messages[n]
    BY <1>1
  <2>1. n - 1 \in 1 .. n - 1 /\ n - 1 + 1 = n
    BY <1>1
  <2> QED
    BY <1>1, <2>1
<1> QED
  BY <1>1, <1>2, <1>3, <1>4, <1>5 DEF rest, n

-----------------------------------------------------------------------------
(* Types *)

LEMMA RequestFacts ==
  ASSUME NEW q \in RequestStates
  PROVE  /\ q.phase \in {"idle", "changed", "poured", "built", "pushed", "measured"}
         /\ q.phase \in {"poured", "built", "pushed"} => q.keg \in Kegs
         /\ q.phase \in {"built", "measured"} => q.payload \in Payloads
         /\ q = Nobody <=> q.phase = "idle"
BY DEF RequestStates, Nobody

LEMMA NewRequests ==
  /\ Nobody \in RequestStates
  /\ [phase |-> "changed"] \in RequestStates
  /\ \A k \in Kegs : /\ [phase |-> "poured", keg |-> k] \in RequestStates
                     /\ [phase |-> "pushed", keg |-> k] \in RequestStates
  /\ \A p \in Payloads : /\ [phase |-> "measured", payload |-> p] \in RequestStates
                         /\ \A k \in Kegs :
                              [phase |-> "built", keg |-> k, payload |-> p] \in RequestStates
BY DEF RequestStates

\* What a request sees of the volumes.
LEMMA SeenFacts ==
  ASSUME Types, NEW r \in Requests
  PROVE  /\ SeenBy(r) \in [Kegs -> Int]
         /\ \A k \in Kegs : SeenBy(r)[k] <= Full
         /\ Writing(r) => \A k \in Kegs :
              SeenBy(r)[k] = IF request[r].keg = k THEN left[k] - 1 ELSE left[k]
         /\ ~Writing(r) => SeenBy(r) = left
<1>1. /\ left \in [Kegs -> Int] /\ \A k \in Kegs : left[k] <= Full
      /\ Full \in Int
      /\ Writing(r) => request[r].keg \in Kegs
  BY TapCardsAssumption, RequestFacts DEF Types, Writing
<1>2. CASE Writing(r)
  <2>1. SeenBy(r) = [left EXCEPT ![request[r].keg] = @ - 1]
    BY <1>2 DEF SeenBy
  <2> QED
    BY <1>1, <1>2, <2>1
<1>3. CASE ~Writing(r)
  BY <1>1, <1>3 DEF SeenBy
<1> QED
  BY <1>2, <1>3

LEMMA SeenPayload ==
  ASSUME Types, NEW r \in Requests
  PROVE  Payload(SeenBy(r)) \in Payloads /\ Payload(left) \in Payloads
BY SeenFacts, PayloadFacts DEF Types

\* What handling a message leaves on the cards.
LEMMA UpdatedFacts ==
  ASSUME Types, NEW p \in Payloads
  PROVE  /\ Updated(p) \in [Taps -> 0 .. Full]
         /\ \A t \in Taps : t \in DOMAIN p /\ shownKeg[t] # NoKeg => Updated(p)[t] = p[t]
<1>1. PICK D \in SUBSET Taps : p \in [D -> 0 .. Full]
  BY DEF Payloads
<1> QED
  BY <1>1 DEF Updated, Types

LEMMA RenderedType ==
  ASSUME tapKeg \in [Taps -> Kegs \cup {NoKeg}], left \in [Kegs -> Int],
         \A k \in Kegs : left[k] <= Full
  PROVE  RenderedLeft \in [Taps -> 0 .. Full]
<1>1. \A t \in Taps : tapKeg[t] # NoKeg => tapKeg[t] \in Kegs /\ Least(left[tapKeg[t]]) \in 0 .. Full
  BY TapCardsAssumption DEF Least
<1> QED
  BY <1>1, TapCardsAssumption DEF RenderedLeft

LEMMA TypesInit == CardsInit => Types
<1> SUFFICES ASSUME CardsInit PROVE Types
  OBVIOUS
<1>1. /\ tapKeg \in [Taps -> Kegs \cup {NoKeg}]
      /\ left \in [Kegs -> Int] /\ \A k \in Kegs : left[k] <= Full
  BY TapCardsAssumption DEF CardsInit
<1>2. shownLeft \in [Taps -> 0 .. Full]
  BY <1>1, RenderedType DEF CardsInit
<1>3. request \in [Requests -> RequestStates]
  BY NewRequests DEF CardsInit
<1>4. inbox \in Seq(Messages) /\ shownKeg \in [Taps -> Kegs \cup {NoKeg}]
  BY <1>1 DEF CardsInit
<1>5. amiss \in BOOLEAN /\ unheard \in BOOLEAN
  BY DEF CardsInit
<1> QED
  BY <1>1, <1>2, <1>3, <1>4, <1>5 DEF Types

\* A step of one request.
LEMMA RequestMoves ==
  ASSUME Types, NEW r \in Requests, NEW q \in RequestStates,
         request' = [request EXCEPT ![r] = q]
  PROVE  /\ request' \in [Requests -> RequestStates]
         /\ request'[r] = q
         /\ \A x \in Requests \ {r} : request'[x] = request[x]
BY DEF Types

\* What it becomes, once it has sent its message.
LEMMA SentRequest ==
  ASSUME Types, NEW r \in Requests
  PROVE  (IF Writing(r) THEN [phase |-> "pushed", keg |-> request[r].keg] ELSE Nobody)
           \in RequestStates
BY NewRequests, RequestFacts DEF Types, Writing

\* What a request may do.
RequestSteps(r) ==
  \/ \E t \in Taps : Pour(r, t) \/ (\E k \in Kegs \cup {NoKeg} : ChangeKeg(r, t, k))
  \/ BuildPayload(r) \/ Temperature(r) \/ SendPayload(r) \/ SendFails(r)
  \/ CommitPour(r) \/ RollBackPour(r)
  \/ Broadcast(r) \/ BroadcastFails(r)

LEMMA RequestsKeepTypes ==
  ASSUME Types, NEW r \in Requests, RequestSteps(r)
  PROVE  Types'
<1>1. ASSUME NEW t \in Taps, Pour(r, t) PROVE Types'
  <2>1. tapKeg[t] \in Kegs
    BY <1>1 DEF Pour, Types
  <2>2. request' \in [Requests -> RequestStates]
    BY <1>1, <2>1, NewRequests, RequestMoves DEF Pour
  <2> QED
    BY <1>1, <2>2 DEF Pour, Types, dbVars, displayVars, cardVars
<1>2. ASSUME NEW t \in Taps, NEW k \in Kegs \cup {NoKeg}, ChangeKeg(r, t, k) PROVE Types'
  <2>1. request' \in [Requests -> RequestStates]
    BY <1>2, NewRequests, RequestMoves DEF ChangeKeg
  <2>2. tapKeg' \in [Taps -> Kegs \cup {NoKeg}]
    BY <1>2 DEF ChangeKeg, Types
  <2> QED
    BY <1>2, <2>1, <2>2 DEF ChangeKeg, Types, cardVars
<1>3. CASE BuildPayload(r)
  <2>1. request[r].keg \in Kegs
    BY <1>3, RequestFacts DEF BuildPayload, Types
  <2>2. request' \in [Requests -> RequestStates]
    BY <1>3, <2>1, NewRequests, RequestMoves, SeenPayload DEF BuildPayload
  <2> QED
    BY <1>3, <2>2 DEF BuildPayload, Types, dbVars, displayVars, cardVars
<1>4. CASE Temperature(r)
  <2>1. request' \in [Requests -> RequestStates]
    BY <1>4, NewRequests, RequestMoves, SeenPayload DEF Temperature
  <2> QED
    BY <1>4, <2>1 DEF Temperature, Types, dbVars, displayVars, cardVars
<1>5. CASE SendPayload(r)
  <2>1. request' \in [Requests -> RequestStates]
    BY <1>5, SentRequest, RequestMoves DEF SendPayload
  <2>2. TapState(request[r].payload) \in Messages
    BY <1>5, RequestFacts, StateIsMessage DEF SendPayload, Types
  <2>3. inbox' \in Seq(Messages)
    BY <1>5, <2>2, AppendReload DEF SendPayload, Deliver, Types
  <2> QED
    BY <1>5, <2>1, <2>3 DEF SendPayload, Types, dbVars, cardVars
<1>6. CASE SendFails(r)
  <2>1. request' \in [Requests -> RequestStates]
    BY <1>6, SentRequest, RequestMoves DEF SendFails
  <2> QED
    BY <1>6, <2>1 DEF SendFails, Types, dbVars, displayVars, cardVars
<1>7. CASE CommitPour(r)
  <2>1. request' \in [Requests -> RequestStates]
    BY <1>7, NewRequests, RequestMoves DEF CommitPour
  <2>2. left' \in [Kegs -> Int] /\ \A k \in Kegs : left'[k] <= Full
    BY <1>7, SeenFacts DEF CommitPour
  <2> QED
    BY <1>7, <2>1, <2>2 DEF CommitPour, Types, cardVars
<1>8. CASE RollBackPour(r)
  <2>1. request' \in [Requests -> RequestStates]
    BY <1>8, NewRequests, RequestMoves DEF RollBackPour
  <2> QED
    BY <1>8, <2>1 DEF RollBackPour, Types, dbVars, displayVars, cardVars
<1>9. CASE Broadcast(r)
  <2>1. request' \in [Requests -> RequestStates]
    BY <1>9, NewRequests, RequestMoves DEF Broadcast
  <2>2. inbox' \in Seq(Messages)
    BY <1>9, ReloadIsMessage, AppendReload DEF Broadcast, Deliver, Types
  <2> QED
    BY <1>9, <2>1, <2>2 DEF Broadcast, Types, dbVars, cardVars
<1>10. CASE BroadcastFails(r)
  <2>1. request' \in [Requests -> RequestStates]
    BY <1>10, NewRequests, RequestMoves DEF BroadcastFails
  <2> QED
    BY <1>10, <2>1 DEF BroadcastFails, Types, dbVars, displayVars, cardVars
<1> QED
  BY <1>1, <1>2, <1>3, <1>4, <1>5, <1>6, <1>7, <1>8, <1>9, <1>10 DEF RequestSteps

LEMMA LoadKeepsTypes ==
  ASSUME Types, Load
  PROVE  Types'
<1>1. shownLeft' \in [Taps -> 0 .. Full]
  BY RenderedType DEF Load, Types
<1>2. /\ tapKeg' = tapKeg /\ left' = left /\ request' = request /\ amiss' = amiss
      /\ shownKeg' = tapKeg /\ unheard' = FALSE
  BY DEF Load, dbVars
<1>3. inbox' \in Seq(Messages)
  BY DEF Load
<1> QED
  BY <1>1, <1>2, <1>3 DEF Types

\* Everything else.
OtherSteps ==
  \/ \E t \in Taps : LoseKeg(t)
  \/ \E k \in Kegs, v \in -1 .. Full : EditVolume(k, v)
  \/ SaveSettings
  \/ Join \/ SendInitial
  \/ ReceiveTapState \/ ReceiveReload
  \/ CardsSocketCloses
  \/ PollIsFresh \/ PollReloads

LEMMA OthersKeepTypes ==
  ASSUME Types, OtherSteps
  PROVE  Types'
<1>1. ASSUME NEW t \in Taps, LoseKeg(t) PROVE Types'
  <2>1. tapKeg' \in [Taps -> Kegs \cup {NoKeg}]
    BY <1>1 DEF LoseKeg, Types
  <2> QED
    BY <1>1, <2>1 DEF LoseKeg, Types, displayVars, cardVars
<1>2. ASSUME NEW k \in Kegs, NEW v \in -1 .. Full, EditVolume(k, v) PROVE Types'
  <2>1. left' \in [Kegs -> Int] /\ \A x \in Kegs : left'[x] <= Full
    BY <1>2, TapCardsAssumption DEF EditVolume, Types
  <2> QED
    BY <1>2, <2>1 DEF EditVolume, Types, displayVars, cardVars
<1>3. CASE SaveSettings
  BY <1>3 DEF SaveSettings, Types, dbVars, cardVars, ReloadUnder
<1>4. CASE Join \/ PollIsFresh
  BY <1>4 DEF Join, PollIsFresh, Types, dbVars, cardVars
<1>5. CASE SendInitial
  <2>1. shownLeft' \in [Taps -> 0 .. Full]
    BY <1>5, UpdatedFacts, PayloadFacts DEF SendInitial, Types
  <2> QED
    BY <1>5, <2>1 DEF SendInitial, Types, dbVars
<1>6. CASE ReceiveTapState
  <2>1. Head(inbox) \in Messages /\ Tail(inbox) \in Seq(Messages)
    BY <1>6, TailReload DEF ReceiveTapState, Types
  <2>2. shownLeft' \in [Taps -> 0 .. Full]
    BY <1>6, <2>1, MessageFacts, UpdatedFacts DEF ReceiveTapState
  <2> QED
    BY <1>6, <2>1, <2>2 DEF ReceiveTapState, Types, dbVars
<1>7. CASE ReceiveReload \/ PollReloads
  BY <1>7, LoadKeepsTypes DEF ReceiveReload, PollReloads
<1>8. CASE CardsSocketCloses
  BY <1>8 DEF CardsSocketCloses, Types, dbVars, cardVars, ReloadUnder
<1> QED
  BY <1>1, <1>2, <1>3, <1>4, <1>5, <1>6, <1>7, <1>8 DEF OtherSteps

LEMMA StepsAreThese == CardsNext <=> (\E r \in Requests : RequestSteps(r)) \/ OtherSteps
BY DEF CardsNext, RequestSteps, OtherSteps

LEMMA TypesKept == Types /\ [CardsNext]_allVars => Types'
<1> SUFFICES ASSUME Types, [CardsNext]_allVars PROVE Types'
  OBVIOUS
<1>1. CASE CardsNext
  BY <1>1, StepsAreThese, RequestsKeepTypes, OthersKeepTypes
<1>2. CASE UNCHANGED allVars
  BY <1>2 DEF allVars, dbVars, displayVars, cardVars, Types
<1> QED
  BY <1>1, <1>2

-----------------------------------------------------------------------------
(* Kegs *)

LEMMA KegsInit == CardsInit => KegsInv
BY DEF CardsInit, KegsInv

\* A request that has nothing to announce leaves the announcements of others alone.
LEMMA OthersAnnounce ==
  ASSUME Types, NEW r \in Requests, NEW q \in RequestStates,
         request' = [request EXCEPT ![r] = q],
         ~Announcing(r), \E x \in Requests : Announcing(x)
  PROVE  \E x \in Requests : Announcing(x)'
<1>1. PICK x \in Requests : Announcing(x)
  OBVIOUS
<1>2. x # r
  BY <1>1
<1>3. request'[x] = request[x]
  BY <1>2, RequestMoves
<1> QED
  BY <1>1, <1>3 DEF Announcing

\* Nor does a step whose messages still hold the reload.
LEMMA KegsStay ==
  ASSUME Types, KegsInv, NEW r \in Requests, NEW q \in RequestStates,
         request' = [request EXCEPT ![r] = q], ~Announcing(r),
         ReloadUnder(inbox) => ReloadUnder(inbox'),
         UNCHANGED <<unheard, shownKeg, tapKeg>>
  PROVE  KegsInv'
<1> SUFFICES ASSUME ~unheard, shownKeg # tapKeg
             PROVE  (\E x \in Requests : Announcing(x)') \/ ReloadUnder(inbox')
  BY DEF KegsInv
<1>1. (\E x \in Requests : Announcing(x)) \/ ReloadUnder(inbox)
  BY DEF KegsInv
<1> QED
  BY <1>1, OthersAnnounce

LEMMA RequestsKeepKegs ==
  ASSUME Types, KegsInv, NEW r \in Requests, RequestSteps(r)
  PROVE  KegsInv'
<1>1. ASSUME NEW t \in Taps, Pour(r, t) PROVE KegsInv'
  <2>1. tapKeg[t] \in Kegs
    BY <1>1 DEF Pour, Types
  <2>2. [phase |-> "poured", keg |-> tapKeg[t]] \in RequestStates
    BY <2>1, NewRequests
  <2>3. ~Announcing(r)
    BY <1>1 DEF Pour, Idle, Nobody, Announcing
  <2> QED
    BY <1>1, <2>2, <2>3, KegsStay DEF Pour, dbVars, displayVars, cardVars
<1>2. ASSUME NEW t \in Taps, NEW k \in Kegs \cup {NoKeg}, ChangeKeg(r, t, k) PROVE KegsInv'
  <2>1. request'[r] = [phase |-> "changed"]
    BY <1>2, NewRequests, RequestMoves DEF ChangeKeg
  <2>2. Announcing(r)'
    BY <2>1 DEF Announcing
  <2> QED
    BY <2>2 DEF KegsInv
<1>3. CASE BuildPayload(r)
  <2>1. request[r].keg \in Kegs /\ ~Announcing(r)
    BY <1>3, RequestFacts DEF BuildPayload, Types, Announcing
  <2>2. [phase |-> "built", keg |-> request[r].keg, payload |-> Payload(SeenBy(r))] \in RequestStates
    BY <2>1, NewRequests, SeenPayload
  <2> QED
    BY <1>3, <2>1, <2>2, KegsStay DEF BuildPayload, dbVars, displayVars, cardVars
<1>4. CASE Temperature(r)
  <2>1. [phase |-> "measured", payload |-> Payload(SeenBy(r))] \in RequestStates
    BY NewRequests, SeenPayload
  <2>2. ~Announcing(r)
    BY <1>4 DEF Temperature, Idle, Nobody, Announcing
  <2> QED
    BY <1>4, <2>1, <2>2, KegsStay DEF Temperature, dbVars, displayVars, cardVars
<1>5. CASE SendPayload(r)
  <2>1. ~Announcing(r)
    BY <1>5 DEF SendPayload, Announcing
  <2>2. TapState(request[r].payload) \in Messages
    BY <1>5, RequestFacts, StateIsMessage DEF SendPayload, Types
  <2>3. ReloadUnder(inbox) => ReloadUnder(inbox')
    BY <1>5, <2>2, AppendReload DEF SendPayload, Deliver, Types
  <2> QED
    BY <1>5, <2>1, <2>3, SentRequest, KegsStay DEF SendPayload, dbVars, cardVars
<1>6. CASE SendFails(r)
  <2>1. ~Announcing(r)
    BY <1>6 DEF SendFails, Announcing
  <2> QED
    BY <1>6, <2>1, SentRequest, KegsStay DEF SendFails, dbVars, displayVars, cardVars
<1>7. CASE CommitPour(r)
  <2>1. ~Announcing(r)
    BY <1>7 DEF CommitPour, Announcing
  <2> QED
    BY <1>7, <2>1, NewRequests, KegsStay DEF CommitPour, cardVars
<1>8. CASE RollBackPour(r)
  <2>1. ~Announcing(r)
    BY <1>8 DEF RollBackPour, Writing, Announcing
  <2> QED
    BY <1>8, <2>1, NewRequests, KegsStay DEF RollBackPour, dbVars, displayVars, cardVars
<1>9. CASE Broadcast(r)
  <2>1. SUFFICES ASSUME inGroup PROVE ReloadUnder(inbox')
    BY <1>9 DEF Broadcast, KegsInv
  <2>2. inbox' = Append(inbox, Reload)
    BY <1>9, <2>1 DEF Broadcast, CanDeliver, Deliver
  <2> QED
    BY <2>2, ReloadIsMessage, AppendReload DEF Types
<1>10. CASE BroadcastFails(r)
  BY <1>10 DEF BroadcastFails, KegsInv
<1> QED
  BY <1>1, <1>2, <1>3, <1>4, <1>5, <1>6, <1>7, <1>8, <1>9, <1>10 DEF RequestSteps

LEMMA LoadKeepsKegs ==
  ASSUME Load
  PROVE  KegsInv'
BY DEF Load, KegsInv, dbVars

LEMMA OthersKeepKegs ==
  ASSUME Types, KegsInv, OtherSteps
  PROVE  KegsInv'
<1>1. ASSUME NEW t \in Taps, LoseKeg(t) PROVE KegsInv'
  BY <1>1 DEF LoseKeg, KegsInv
<1>2. ASSUME NEW k \in Kegs, NEW v \in -1 .. Full, EditVolume(k, v) PROVE KegsInv'
  BY <1>2 DEF EditVolume, KegsInv, Announcing, displayVars, cardVars
<1>3. CASE SaveSettings
  BY <1>3 DEF SaveSettings, KegsInv, Announcing, dbVars, cardVars
<1>4. CASE Join \/ PollIsFresh
  BY <1>4 DEF Join, PollIsFresh, KegsInv, Announcing, dbVars, cardVars
<1>5. CASE SendInitial
  BY <1>5 DEF SendInitial, KegsInv, Announcing, dbVars
<1>6. CASE ReceiveTapState
  <2>1. ReloadUnder(inbox') <=> ReloadUnder(inbox)
    BY <1>6, TailReload DEF ReceiveTapState, Types
  <2> QED
    BY <1>6, <2>1 DEF ReceiveTapState, KegsInv, Announcing, dbVars
<1>7. CASE ReceiveReload \/ PollReloads
  BY <1>7, LoadKeepsKegs DEF ReceiveReload, PollReloads
<1>8. CASE CardsSocketCloses
  BY <1>8 DEF CardsSocketCloses, KegsInv, Announcing, dbVars, cardVars
<1> QED
  BY <1>1, <1>2, <1>3, <1>4, <1>5, <1>6, <1>7, <1>8 DEF OtherSteps

LEMMA KegsKept == Types /\ KegsInv /\ [CardsNext]_allVars => KegsInv'
<1> SUFFICES ASSUME Types, KegsInv, [CardsNext]_allVars PROVE KegsInv'
  OBVIOUS
<1>1. CASE CardsNext
  BY <1>1, StepsAreThese, RequestsKeepKegs, OthersKeepKegs
<1>2. CASE UNCHANGED allVars
  BY <1>2 DEF allVars, dbVars, displayVars, cardVars, KegsInv, Announcing
<1> QED
  BY <1>1, <1>2

LEMMA KegsShown == KegsInv => KegsCatchUp
<1> SUFFICES ASSUME KegsInv, Settled, ~unheard PROVE shownKeg = tapKeg
  BY DEF KegsCatchUp
<1>1. ~ReloadUnder(inbox)
  BY NoReloadUnderNothing DEF Settled
<1>2. \A r \in Requests : ~Announcing(r)
  BY DEF Settled, AllIdle, Idle, Nobody, Announcing
<1> QED
  BY <1>1, <1>2 DEF KegsInv

-----------------------------------------------------------------------------
(* Volumes *)

LEMMA VolumesInit == CardsInit => VolumesInv
BY DEF CardsInit, VolumesInv, OneAtATime, MessagesAreTrue, NewestIsTrue, Idle, Nobody

\* A request with the taps to itself.
LEMMA AloneFacts ==
  ASSUME Types, NEW r \in Requests, OneAtATime, ~Idle(r)
  PROVE  OthersIdle(r)
BY DEF OneAtATime, OthersIdle

LEMMA Alone ==
  ASSUME Types, NEW r \in Requests, NEW q \in RequestStates,
         request' = [request EXCEPT ![r] = q], OthersIdle(r)
  PROVE  /\ OneAtATime'
         /\ request'[r] = q
         /\ \A x \in Requests \ {r} : request'[x] = Nobody
<1>1. /\ request'[r] = q
      /\ \A x \in Requests \ {r} : request'[x] = Nobody
  BY RequestMoves DEF OthersIdle, Idle
<1> QED
  BY <1>1 DEF OneAtATime, Idle

\* If all it may still do is commit, the volumes to come are those it sees.
LEMMA ComingFacts ==
  ASSUME Types, NEW r \in Requests, OthersIdle(r), request[r].phase \notin {"poured", "built"},
         NEW k \in Kegs
  PROVE  Coming(k) = SeenBy(r)[k]
<1>1. \A x \in Requests : request[x].phase = "pushed" => x = r
  BY DEF OthersIdle, Idle, Nobody
<1>2. CASE request[r].phase = "pushed"
  <2>1. SeenBy(r)[k] = IF request[r].keg = k THEN left[k] - 1 ELSE left[k]
    BY <1>2, SeenFacts DEF Writing
  <2> QED
    BY <1>1, <1>2, <2>1 DEF Coming
<1>3. CASE request[r].phase # "pushed"
  <2>1. SeenBy(r) = left
    BY <1>3, SeenFacts DEF Writing
  <2> QED
    BY <1>1, <1>3, <2>1 DEF Coming
<1> QED
  BY <1>2, <1>3

LEMMA NothingComes ==
  ASSUME AllIdle, NEW k \in Kegs
  PROVE  Coming(k) = left[k]
BY DEF AllIdle, Idle, Nobody, Coming

\* A step in which a request gets, or keeps, something to send.
LEMMA UnsentKeepsVolumes ==
  ASSUME Types, NEW r \in Requests, NEW q \in RequestStates,
         request' = [request EXCEPT ![r] = q], OthersIdle(r),
         q.phase \in {"poured", "built", "measured", "changed"},
         q.phase \in {"built", "measured"} => q.payload = Payload(SeenBy(r))',
         page = "live" => inGroup, UNCHANGED <<page, inGroup>>
  PROVE  VolumesInv'
<1>1. /\ OneAtATime'
      /\ request'[r] = q
      /\ \A x \in Requests \ {r} : request'[x] = Nobody
  BY Alone
<1>2. MessagesAreTrue'
  <2> SUFFICES ASSUME NEW x \in Requests, request'[x].phase \in {"built", "measured"}
               PROVE  request'[x].payload = Payload(SeenBy(x))'
    BY DEF MessagesAreTrue
  <2>1. x = r
    BY <1>1 DEF Nobody
  <2> QED
    BY <1>1, <2>1
<1>3. Unsent(r)'
  BY <1>1 DEF Unsent
<1>4. NewestIsTrue'
  BY <1>3 DEF NewestIsTrue
<1> QED
  BY <1>1, <1>2, <1>4 DEF VolumesInv

LEMMA StartsKeepVolumes ==
  ASSUME Types, VolumesInv, NEW r \in Requests, ~amiss', AllIdle,
         \/ \E t \in Taps : Pour(r, t) \/ (\E k \in Kegs \cup {NoKeg} : ChangeKeg(r, t, k))
         \/ Temperature(r),
         ~amiss
  PROVE  VolumesInv'
<1>1. OthersIdle(r) /\ (page = "live" => inGroup)
  BY DEF AllIdle, OthersIdle, VolumesInv
<1>2. ASSUME NEW t \in Taps, Pour(r, t) PROVE VolumesInv'
  <2>1. tapKeg[t] \in Kegs
    BY <1>2 DEF Pour, Types
  <2> DEFINE q == [phase |-> "poured", keg |-> tapKeg[t]]
  <2>2. q \in RequestStates /\ q.phase = "poured"
    BY <2>1, NewRequests
  <2>3. request' = [request EXCEPT ![r] = q] /\ UNCHANGED <<page, inGroup>>
    BY <1>2 DEF Pour, displayVars
  <2> HIDE DEF q
  <2> QED
    BY <1>1, <2>2, <2>3, UnsentKeepsVolumes
<1>3. ASSUME NEW t \in Taps, NEW k \in Kegs \cup {NoKeg}, ChangeKeg(r, t, k) PROVE VolumesInv'
  <2> DEFINE q == [phase |-> "changed"]
  <2>1. q \in RequestStates /\ q.phase = "changed"
    BY NewRequests
  <2>2. request' = [request EXCEPT ![r] = q] /\ UNCHANGED <<page, inGroup>>
    BY <1>3 DEF ChangeKeg
  <2> HIDE DEF q
  <2> QED
    BY <1>1, <2>1, <2>2, UnsentKeepsVolumes
<1>4. CASE Temperature(r)
  <2> DEFINE q == [phase |-> "measured", payload |-> Payload(SeenBy(r))]
  <2>1. q \in RequestStates /\ q.phase = "measured" /\ q.payload = Payload(SeenBy(r))
    BY NewRequests, SeenPayload
  <2>2. /\ request' = [request EXCEPT ![r] = q]
        /\ UNCHANGED <<page, inGroup, tapKeg, left>>
    BY <1>4 DEF Temperature, displayVars, dbVars
  <2>3. request'[r] = q
    BY <2>1, <2>2, RequestMoves
  <2>4. ~Writing(r) /\ ~Writing(r)'
    BY <1>4, <2>1, <2>3 DEF Temperature, Idle, Nobody, Writing
  <2>5. SeenBy(r)' = SeenBy(r)
    BY <2>2, <2>4 DEF SeenBy
  <2>6. q.payload = Payload(SeenBy(r))'
    BY <2>1, <2>2, <2>5 DEF Payload
  <2> HIDE DEF q
  <2> QED
    BY <1>1, <2>1, <2>2, <2>6, UnsentKeepsVolumes
<1> QED
  BY <1>2, <1>3, <1>4

LEMMA BuildKeepsVolumes ==
  ASSUME Types, VolumesInv, NEW r \in Requests, BuildPayload(r), ~amiss
  PROVE  VolumesInv'
<1>1. ~Idle(r) /\ request[r].keg \in Kegs
  BY RequestFacts DEF BuildPayload, Idle, Nobody, Types
<1>2. OthersIdle(r) /\ (page = "live" => inGroup)
  BY <1>1, AloneFacts DEF VolumesInv
<1> DEFINE q == [phase |-> "built", keg |-> request[r].keg, payload |-> Payload(SeenBy(r))]
<1>3. /\ q \in RequestStates
      /\ q.phase = "built" /\ q.keg = request[r].keg /\ q.payload = Payload(SeenBy(r))
  BY <1>1, NewRequests, SeenPayload
<1>4. /\ request' = [request EXCEPT ![r] = q]
      /\ UNCHANGED <<page, inGroup, tapKeg, left>>
  BY DEF BuildPayload, displayVars, dbVars
<1>5. request'[r] = q
  BY <1>3, <1>4, RequestMoves
<1>6. Writing(r) /\ Writing(r)'
  BY <1>3, <1>5 DEF BuildPayload, Writing
<1>7. SeenBy(r)' = SeenBy(r)
  BY <1>3, <1>4, <1>5, <1>6 DEF SeenBy
<1>8. q.payload = Payload(SeenBy(r))'
  BY <1>3, <1>4, <1>7 DEF Payload
<1> HIDE DEF q
<1> QED
  BY <1>2, <1>3, <1>4, <1>8, UnsentKeepsVolumes

\* A step after which the request, alone, has nothing more to send.
LEMMA SentKeepsVolumes ==
  ASSUME Types, NEW r \in Requests, NEW q \in RequestStates,
         request' = [request EXCEPT ![r] = q], OthersIdle(r),
         q.phase \in {"idle", "pushed"},
         page = "live" => inGroup, UNCHANGED <<page, inGroup, shownKeg, tapKeg>>,
         page = "live" /\ ~ReloadUnder(inbox') =>
           \A t \in Taps : tapKeg[t] # NoKeg /\ shownKeg[t] = tapKeg[t] => Promised(t)'
  PROVE  VolumesInv'
<1>1. /\ OneAtATime'
      /\ request'[r] = q
      /\ \A x \in Requests \ {r} : request'[x] = Nobody
  BY Alone
<1>2. MessagesAreTrue'
  BY <1>1 DEF MessagesAreTrue, Nobody
<1>3. NewestIsTrue'
  BY DEF NewestIsTrue
<1> QED
  BY <1>1, <1>2, <1>3 DEF VolumesInv

LEMMA SendKeepsVolumes ==
  ASSUME Types, VolumesInv, NEW r \in Requests, SendPayload(r), ~amiss'
  PROVE  VolumesInv'
<1> DEFINE q == IF Writing(r) THEN [phase |-> "pushed", keg |-> request[r].keg] ELSE Nobody
           p == request[r].payload
<1>1. /\ q \in RequestStates
      /\ Writing(r) => q.phase = "pushed" /\ q.keg = request[r].keg
      /\ ~Writing(r) => q.phase = "idle"
  BY SentRequest DEF Nobody
<1>2. /\ request' = [request EXCEPT ![r] = q]
      /\ UNCHANGED <<page, inGroup, tapKeg, left, shownKeg>>
      /\ request[r].phase \in {"built", "measured"}
      /\ CanDeliver
      /\ inbox' = Deliver(TapState(p))
  BY DEF SendPayload, dbVars, cardVars
<1>3. OthersIdle(r) /\ p = Payload(SeenBy(r)) /\ (page = "live" => inGroup)
  <2>1. CASE inGroup /\ OthersIdle(r) /\ p = Payload(SeenBy(r))
    BY <2>1
  <2>2. CASE ~amiss
    <3>1. ~Idle(r)
      BY <1>2 DEF Idle, Nobody
    <3> QED
      BY <1>2, <2>2, <3>1, AloneFacts DEF VolumesInv, MessagesAreTrue
  <2> QED
    BY <2>1, <2>2 DEF SendPayload
<1>4. p \in Payloads
  BY <1>2, RequestFacts DEF Types
<1>5. request'[r] = q /\ \A x \in Requests \ {r} : request'[x] = Nobody
  BY <1>1, <1>2, <1>3, Alone
<1> HIDE DEF q, p
<1>6. ASSUME NEW k \in Kegs PROVE Coming(k)' = SeenBy(r)[k]
  <2>1. \A x \in Requests : request'[x].phase = "pushed" => x = r
    BY <1>5 DEF Nobody
  <2>2. CASE Writing(r)
    <3>1. SeenBy(r)[k] = IF request[r].keg = k THEN left[k] - 1 ELSE left[k]
      BY <2>2, SeenFacts
    <3>2. request'[r].phase = "pushed" /\ request'[r].keg = request[r].keg
      BY <1>1, <1>5, <2>2
    <3> QED
      BY <1>2, <2>1, <3>1, <3>2 DEF Coming
  <2>3. CASE ~Writing(r)
    <3>1. SeenBy(r) = left
      BY <2>3, SeenFacts
    <3>2. request'[r].phase # "pushed"
      BY <1>1, <1>5, <2>3
    <3> QED
      BY <1>2, <2>1, <3>1, <3>2 DEF Coming
  <2> QED
    BY <2>2, <2>3
<1>7. ASSUME page = "live", NEW t \in Taps, tapKeg[t] # NoKeg PROVE Promised(t)'
  <2>1. inbox' = Append(inbox, TapState(p))
    BY <1>2, <1>3, <1>7 DEF CanDeliver, Deliver
  <2>2. inbox' # <<>> /\ inbox'[Len(inbox')] = TapState(p)
    BY <1>4, <2>1, StateIsMessage, AppendReload DEF Types
  <2>3. TapState(p).taps = p
    BY <1>4, StateIsMessage
  <2>4. /\ tapKeg[t] \in Kegs
        /\ t \in DOMAIN p
        /\ p[t] = Least(SeenBy(r)[tapKeg[t]])
    BY <1>3, <1>7, SeenFacts, PayloadFacts DEF Types
  <2>5. p[t] = Least(Coming(tapKeg[t]))'
    BY <1>2, <1>6, <2>4 DEF Least
  <2> QED
    BY <2>2, <2>3, <2>4, <2>5 DEF Promised
<1> QED
  BY <1>1, <1>2, <1>3, <1>7, SentKeepsVolumes

LEMMA CommitKeepsVolumes ==
  ASSUME Types, VolumesInv, NEW r \in Requests, CommitPour(r), ~amiss
  PROVE  VolumesInv'
<1>1. ~Idle(r) /\ request[r].phase = "pushed"
  BY DEF CommitPour, Idle, Nobody
<1>2. OthersIdle(r) /\ (page = "live" => inGroup)
  BY <1>1, AloneFacts DEF VolumesInv
<1>3. /\ request' = [request EXCEPT ![r] = Nobody]
      /\ left' = SeenBy(r)
      /\ UNCHANGED <<page, inGroup, inbox, tapKeg, shownKeg, shownLeft>>
  BY DEF CommitPour, cardVars
<1>4. \A x \in Requests : ~Unsent(x)
  BY <1>1, <1>2 DEF Unsent, OthersIdle, Idle, Nobody
<1>5. \A x \in Requests : request'[x] = Nobody
  BY <1>2, <1>3, NewRequests, Alone
<1>6. ASSUME NEW k \in Kegs PROVE Coming(k)' = Coming(k)
  <2>1. Coming(k) = SeenBy(r)[k]
    BY <1>1, <1>2, ComingFacts
  <2>2. Coming(k)' = left'[k]
    BY <1>5 DEF Coming, Nobody
  <2> QED
    BY <1>3, <2>1, <2>2
<1>7. ASSUME page = "live", ~ReloadUnder(inbox),
             NEW t \in Taps, tapKeg[t] # NoKeg, shownKeg[t] = tapKeg[t]
      PROVE  Promised(t)'
  <2>1. Promised(t)
    BY <1>4, <1>7 DEF VolumesInv, NewestIsTrue
  <2>2. tapKeg[t] \in Kegs
    BY <1>7 DEF Types
  <2>3. Least(Coming(tapKeg[t]))' = Least(Coming(tapKeg[t]))
    BY <1>3, <1>6, <2>2 DEF Least
  <2> QED
    BY <1>3, <2>1, <2>3 DEF Promised
<1>8. Nobody \in RequestStates /\ Nobody.phase = "idle"
  BY NewRequests DEF Nobody
<1> QED
  BY <1>2, <1>3, <1>7, <1>8, SentKeepsVolumes

LEMMA BroadcastKeepsVolumes ==
  ASSUME Types, VolumesInv, NEW r \in Requests, Broadcast(r), ~amiss
  PROVE  VolumesInv'
<1>1. ~Idle(r)
  BY DEF Broadcast, Idle, Nobody
<1>2. OthersIdle(r) /\ (page = "live" => inGroup)
  BY <1>1, AloneFacts DEF VolumesInv
<1>3. /\ request' = [request EXCEPT ![r] = Nobody]
      /\ UNCHANGED <<page, inGroup, tapKeg, shownKeg>>
  BY DEF Broadcast, dbVars, cardVars
<1>4. ASSUME page = "live" PROVE ReloadUnder(inbox')
  <2>1. inbox' = Append(inbox, Reload)
    BY <1>2, <1>4 DEF Broadcast, CanDeliver, Deliver
  <2> QED
    BY <2>1, ReloadIsMessage, AppendReload DEF Types
<1>5. Nobody \in RequestStates /\ Nobody.phase = "idle"
  BY NewRequests DEF Nobody
<1> QED
  BY <1>2, <1>3, <1>4, <1>5, SentKeepsVolumes

LEMMA RequestsKeepVolumes ==
  ASSUME Types, VolumesInv, NEW r \in Requests, RequestSteps(r)
  PROVE  VolumesInv'
<1> SUFFICES ASSUME ~amiss' PROVE VolumesInv'
  BY DEF VolumesInv
<1>1. CASE \/ \E t \in Taps : Pour(r, t) \/ (\E k \in Kegs \cup {NoKeg} : ChangeKeg(r, t, k))
           \/ Temperature(r)
  <2>1. ~amiss /\ AllIdle
    BY <1>1 DEF Pour, ChangeKeg, Temperature
  <2> QED
    BY <1>1, <2>1, StartsKeepVolumes
<1>2. CASE BuildPayload(r)
  BY <1>2, BuildKeepsVolumes DEF BuildPayload
<1>3. CASE SendPayload(r)
  BY <1>3, SendKeepsVolumes
<1>4. CASE CommitPour(r)
  BY <1>4, CommitKeepsVolumes DEF CommitPour
<1>5. CASE Broadcast(r)
  BY <1>5, BroadcastKeepsVolumes DEF Broadcast
<1>6. CASE SendFails(r) \/ RollBackPour(r) \/ BroadcastFails(r)
  BY <1>6 DEF SendFails, RollBackPour, BroadcastFails
<1> QED
  BY <1>1, <1>2, <1>3, <1>4, <1>5, <1>6 DEF RequestSteps

\* A step of the page that is not, or no longer, live after it.
LEMMA AwayKeepsVolumes ==
  ASSUME VolumesInv, page' # "live", UNCHANGED <<tapKeg, left, request, amiss>>
  PROVE  VolumesInv'
<1> SUFFICES ASSUME ~amiss PROVE OneAtATime' /\ MessagesAreTrue' /\ NewestIsTrue'
  BY DEF VolumesInv
<1>1. OneAtATime'
  BY DEF VolumesInv, OneAtATime, Idle
<1>2. MessagesAreTrue'
  BY DEF VolumesInv, MessagesAreTrue, SeenBy, Writing, Payload
<1>3. NewestIsTrue'
  BY DEF NewestIsTrue
<1> QED
  BY <1>1, <1>2, <1>3

LEMMA InitialKeepsVolumes ==
  ASSUME Types, SendInitial
  PROVE  VolumesInv'
<1> SUFFICES ASSUME AllIdle, inbox = <<>>, inGroup PROVE VolumesInv'
  BY DEF SendInitial, VolumesInv
<1>1. /\ UNCHANGED <<tapKeg, left, request, inGroup, inbox, shownKeg>>
      /\ shownLeft' = Updated(Payload(left))
  BY DEF SendInitial, dbVars
<1>2. \A r \in Requests : request'[r] = Nobody
  BY <1>1 DEF AllIdle, Idle
<1>3. OneAtATime' /\ MessagesAreTrue'
  BY <1>2 DEF OneAtATime, MessagesAreTrue, Idle, Nobody
<1>4. ASSUME NEW t \in Taps, tapKeg[t] # NoKeg, shownKeg[t] = tapKeg[t] PROVE Promised(t)'
  <2>1. /\ tapKeg[t] \in Kegs
        /\ t \in DOMAIN Payload(left)
        /\ Payload(left)[t] = Least(left[tapKeg[t]])
    BY <1>4, PayloadFacts DEF Types
  <2>2. Updated(Payload(left))[t] = Payload(left)[t]
    BY <1>4, <2>1, SeenPayload, UpdatedFacts, PayloadFacts DEF Types
  <2>3. Coming(tapKeg[t])' = left[tapKeg[t]]
    BY <1>1, <1>2 DEF Coming, Nobody
  <2>4. Least(Coming(tapKeg[t]))' = Least(left[tapKeg[t]])
    BY <2>3 DEF Least
  <2> QED
    BY <1>1, <2>1, <2>2, <2>4 DEF Promised
<1>5. NewestIsTrue'
  BY <1>1, <1>4 DEF NewestIsTrue
<1> QED
  BY <1>1, <1>3, <1>5 DEF VolumesInv

LEMMA ReceiveKeepsVolumes ==
  ASSUME Types, VolumesInv, ReceiveTapState
  PROVE  VolumesInv'
<1>1. /\ UNCHANGED <<tapKeg, left, request, page, inGroup, shownKeg, amiss>>
      /\ page = "live" /\ inbox # <<>> /\ ~IsReload(Head(inbox))
      /\ inbox' = Tail(inbox)
      /\ shownLeft' = Updated(Head(inbox).taps)
  BY DEF ReceiveTapState, dbVars
<1> SUFFICES ASSUME ~amiss PROVE OneAtATime' /\ MessagesAreTrue' /\ NewestIsTrue'
  BY <1>1 DEF VolumesInv
<1>2. OneAtATime'
  BY <1>1 DEF VolumesInv, OneAtATime, Idle
<1>3. MessagesAreTrue'
  BY <1>1 DEF VolumesInv, MessagesAreTrue, SeenBy, Writing, Payload
<1>4. /\ Head(inbox) \in Messages
      /\ ReloadUnder(inbox') <=> ReloadUnder(inbox)
      /\ inbox' = <<>> => inbox[Len(inbox)] = Head(inbox)
      /\ inbox' # <<>> => inbox'[Len(inbox')] = inbox[Len(inbox)]
  BY <1>1, TailReload DEF Types
<1>5. ASSUME ~ReloadUnder(inbox), \A r \in Requests : ~Unsent(r),
             NEW t \in Taps, tapKeg[t] # NoKeg, shownKeg[t] = tapKeg[t]
      PROVE  Promised(t)'
  <2> DEFINE last == inbox[Len(inbox)]
  <2>1. t \in DOMAIN last.taps /\ last.taps[t] = Least(Coming(tapKeg[t]))
    BY <1>1, <1>5 DEF VolumesInv, NewestIsTrue, Promised
  <2>2. Least(Coming(tapKeg[t]))' = Least(Coming(tapKeg[t]))
    BY <1>1 DEF Least, Coming
  <2>3. CASE inbox' = <<>>
    <3>1. last = Head(inbox)
      BY <1>4, <2>3
    <3>2. shownLeft'[t] = last.taps[t]
      BY <1>1, <1>4, <1>5, <2>1, <3>1, MessageFacts, UpdatedFacts
    <3> QED
      BY <2>1, <2>2, <2>3, <3>2 DEF Promised
  <2>4. CASE inbox' # <<>>
    BY <1>4, <2>1, <2>2, <2>4 DEF Promised
  <2> QED
    BY <2>3, <2>4
<1>6. NewestIsTrue'
  BY <1>1, <1>4, <1>5 DEF NewestIsTrue, Unsent
<1> QED
  BY <1>2, <1>3, <1>6

LEMMA OthersKeepVolumes ==
  ASSUME Types, VolumesInv, OtherSteps
  PROVE  VolumesInv'
<1>1. CASE \/ \E t \in Taps : LoseKeg(t)
           \/ \E k \in Kegs, v \in -1 .. Full : EditVolume(k, v)
           \/ SaveSettings
  BY <1>1 DEF LoseKeg, EditVolume, SaveSettings, VolumesInv
<1>2. CASE Join
  BY <1>2, AwayKeepsVolumes DEF Join, dbVars
<1>3. CASE SendInitial
  BY <1>3, InitialKeepsVolumes
<1>4. CASE ReceiveTapState
  BY <1>4, ReceiveKeepsVolumes
<1>5. CASE ReceiveReload \/ PollReloads
  BY <1>5, AwayKeepsVolumes DEF ReceiveReload, PollReloads, Load, dbVars
<1>6. CASE CardsSocketCloses
  BY <1>6, AwayKeepsVolumes DEF CardsSocketCloses, dbVars
<1>7. CASE PollIsFresh
  BY <1>7 DEF PollIsFresh, dbVars, cardVars, VolumesInv, OneAtATime, MessagesAreTrue, NewestIsTrue,
              Idle, SeenBy, Writing, Payload, Unsent, Promised, Coming
<1> QED
  BY <1>1, <1>2, <1>3, <1>4, <1>5, <1>6, <1>7 DEF OtherSteps

LEMMA VolumesKept == Types /\ VolumesInv /\ [CardsNext]_allVars => VolumesInv'
<1> SUFFICES ASSUME Types, VolumesInv, [CardsNext]_allVars PROVE VolumesInv'
  OBVIOUS
<1>1. CASE CardsNext
  BY <1>1, StepsAreThese, RequestsKeepVolumes, OthersKeepVolumes
<1>2. CASE UNCHANGED allVars
  BY <1>2 DEF allVars, dbVars, displayVars, cardVars, VolumesInv, OneAtATime, MessagesAreTrue,
              NewestIsTrue, Idle, SeenBy, Writing, Payload, Unsent, Promised, Coming
<1> QED
  BY <1>1, <1>2

LEMMA VolumesShown == Types /\ VolumesInv => VolumesCatchUp
<1> SUFFICES ASSUME Types, VolumesInv, Settled, ~amiss,
                    NEW t \in Taps, tapKeg[t] # NoKeg, shownKeg[t] = tapKeg[t]
             PROVE  Right(t)
  BY DEF VolumesCatchUp
<1>1. \A r \in Requests : ~Unsent(r)
  BY DEF Settled, AllIdle, Idle, Nobody, Unsent
<1>2. Promised(t)
  BY <1>1, NoReloadUnderNothing DEF Settled, VolumesInv, NewestIsTrue
<1>3. tapKeg[t] \in Kegs
  BY DEF Types
<1>4. Coming(tapKeg[t]) = left[tapKeg[t]]
  BY <1>3, NothingComes DEF Settled
<1> QED
  BY <1>2, <1>4 DEF Promised, Settled, Right

-----------------------------------------------------------------------------
(* Theorems *)

\* A change of kegs the page has not made is with a request that will announce it or on
\* its way, or is counted as unheard; and unless something is amiss, what the newest
\* message says, or the page shows, is what will be committed.
THEOREM CardsInvariance == CardsSpec => []CardsInv
<1>1. CardsInit => CardsInv
  BY TypesInit, KegsInit, VolumesInit DEF CardsInv
<1>2. CardsInv /\ [CardsNext]_allVars => CardsInv'
  BY TypesKept, KegsKept, VolumesKept DEF CardsInv
<1> QED
  BY <1>1, <1>2, PTL DEF CardsSpec

\* handleReload and _broadcast_fullscreen_reload: a connected display that has handled
\* its messages has the cards of the kegs on tap, unless a change was not announced.
THEOREM KegsDoCatchUp == CardsSpec => []KegsCatchUp
<1>1. CardsInv => KegsCatchUp
  BY KegsShown DEF CardsInv
<1> QED
  BY <1>1, CardsInvariance, PTL

\* _push_tap_state and the initial state of FullscreenConsumer.connect: however many taps
\* and requests there are, a connected display that has handled its messages shows the
\* volumes as committed, unless a push was lost, taken back, never made or overlapped.
THEOREM VolumesDoCatchUp == CardsSpec => []VolumesCatchUp
<1>1. CardsInv => VolumesCatchUp
  BY VolumesShown DEF CardsInv
<1> QED
  BY <1>1, CardsInvariance, PTL

=============================================================================
