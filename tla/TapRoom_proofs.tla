--------------------------- MODULE TapRoom_proofs ---------------------------
(***************************************************************************)
(* The properties of TapRoom, proved for any taps and any kegs.  None of   *)
(* the invariants is inductive alone: that the keg of a tap is on_tap      *)
(* survives the end of the keg only because no second tap has it, and the  *)
(* log of a keg's life follows its status.  Their conjunction with the     *)
(* type invariant, RoomInv, is inductive.                                  *)
(***************************************************************************)
EXTENDS TapRoom, TLAPS

RoomInv ==
  /\ RoomTypeOK
  /\ TappedKegIsOnTap
  /\ KegOnOneTap
  /\ LifeIsLoggedOnce

-----------------------------------------------------------------------------

\* build_events_for_keg keeps an event that is there, adds the one that the status
\* of the keg calls for, and never makes a second.
LEMMA EventsAreBuiltOnce ==
  ASSUME NEW ev \in [tapped : Nat, ended : Nat], NEW st \in Status,
         ev.tapped <= 1, ev.ended <= 1
  PROVE  LET new == BuildEventsForKeg(ev, st)
         IN  /\ new \in [tapped : Nat, ended : Nat]
             /\ new.tapped <= 1 /\ new.ended <= 1
             /\ st = "on_tap" \/ ev.tapped = 1 => new.tapped = 1
             /\ st = "finished" \/ ev.ended = 1 => new.ended = 1
             /\ st \in {"absent", "available"} => new = ev
BY DEF BuildEventsForKeg, Status

\* Saving Keg rows keeps the log of their lives when no row disappears and events
\* are built for each keg that comes on tap or is finished.
LEMMA SavedKegsAreLogged ==
  ASSUME RoomTypeOK, LifeIsLoggedOnce,
         NEW st \in [Kegs -> Status], NEW changed,
         SaveKegs(st, changed),
         \A k \in Kegs : st[k] = "absent" => status[k] = "absent",
         \A k \in Kegs : st[k] \in {"on_tap", "finished"} =>
                           k \in changed \/ st[k] = status[k]
  PROVE  /\ status' \in [Kegs -> Status]
         /\ kegEvents' \in [Kegs -> [tapped : Nat, ended : Nat]]
         /\ LifeIsLoggedOnce'
<1>1. status' = st
  BY DEF SaveKegs
<1>2. ASSUME NEW k \in Kegs
      PROVE  /\ kegEvents'[k] \in [tapped : Nat, ended : Nat]
             /\ kegEvents'[k].tapped <= 1 /\ kegEvents'[k].ended <= 1
             /\ status'[k] = "on_tap" => kegEvents'[k].tapped = 1
             /\ status'[k] = "finished" => kegEvents'[k].ended = 1
             /\ status'[k] = "absent" => kegEvents'[k] = NoEvents
  <2>1. /\ kegEvents[k] \in [tapped : Nat, ended : Nat]
        /\ kegEvents[k].tapped <= 1 /\ kegEvents[k].ended <= 1
        /\ status[k] = "on_tap" => kegEvents[k].tapped = 1
        /\ status[k] = "finished" => kegEvents[k].ended = 1
        /\ status[k] = "absent" => kegEvents[k] = NoEvents
    BY DEF RoomTypeOK, LifeIsLoggedOnce
  <2>2. CASE k \in changed
    <3>1. kegEvents'[k] = BuildEventsForKeg(kegEvents[k], st[k])
      BY <2>2 DEF SaveKegs
    <3>2. st[k] \in Status
      OBVIOUS
    <3> QED
      BY <1>1, <2>1, <3>1, <3>2, EventsAreBuiltOnce
  <2>3. CASE k \notin changed
    <3>1. kegEvents'[k] = kegEvents[k]
      BY <2>3 DEF SaveKegs
    <3> QED
      BY <1>1, <2>1, <2>3, <3>1
  <2> QED
    BY <2>2, <2>3
<1>3. kegEvents' = [k \in Kegs |-> kegEvents'[k]]
  BY DEF SaveKegs
<1> QED
  BY <1>1, <1>2, <1>3 DEF LifeIsLoggedOnce

-----------------------------------------------------------------------------

\* The room starts without taps, kegs or events.
LEMMA RoomInitInv == RoomInit => RoomInv
BY NoKegAssumption
   DEF RoomInit, RoomInv, RoomTypeOK, Status, NoEvents, TappedKegIsOnTap, IsActive,
       KegOnOneTap, LifeIsLoggedOnce

\* Ending the keg of a tap, if it has one, keeps the invariant, the tap remaining or
\* going away with it.
LEMMA EndCurrentKegInv ==
  ASSUME RoomInv, NEW t \in Taps, EndCurrentKeg(t), taps' \in {taps, taps \ {t}}
  PROVE  RoomInv'
<1> DEFINE st == [k \in Kegs |-> IF k = currentKeg[t] THEN "finished" ELSE status[k]]
<1> USE DEF RoomInv
<1>1. st \in [Kegs -> Status]
  BY DEF RoomTypeOK, Status
<1>2. /\ status' = st
      /\ kegEvents' \in [Kegs -> [tapped : Nat, ended : Nat]]
      /\ LifeIsLoggedOnce'
  <2>1. SaveKegs(st, {currentKeg[t]})
    BY DEF EndCurrentKeg
  <2>2. status' = st
    BY <2>1 DEF SaveKegs
  <2> QED
    BY <1>1, <2>1, <2>2, SavedKegsAreLogged
<1>3. RoomTypeOK'
  BY <1>1, <1>2 DEF RoomTypeOK, EndCurrentKeg
<1>4. TappedKegIsOnTap'
  <2> SUFFICES ASSUME NEW u \in Taps, currentKeg'[u] # NoKeg
               PROVE  u \in taps' /\ status'[currentKeg'[u]] = "on_tap"
    BY DEF TappedKegIsOnTap, IsActive
  <2>1. u # t /\ currentKeg'[u] = currentKeg[u]
    BY DEF EndCurrentKeg, RoomTypeOK
  <2>2. currentKeg[u] # currentKeg[t]
    BY <2>1 DEF KegOnOneTap, IsActive
  <2> QED
    BY <1>2, <2>1, <2>2 DEF TappedKegIsOnTap, IsActive, RoomTypeOK
<1>5. KegOnOneTap'
  BY DEF KegOnOneTap, IsActive, EndCurrentKeg, RoomTypeOK
<1> QED
  BY <1>2, <1>3, <1>4, <1>5

\* A new keg on a tap: the keg before it is ended, no tap had the new one.
LEMMA ChangeKegInv ==
  ASSUME RoomInv, NEW t \in Taps, NEW k \in Kegs, ChangeKegRequest(t, k)
  PROVE  RoomInv'
<1> DEFINE st == [x \in Kegs |-> IF x = k THEN "on_tap"
                                 ELSE IF x = currentKeg[t] THEN "finished"
                                 ELSE status[x]]
<1> USE DEF RoomInv, ChangeKegRequest, ChangeKeg
<1>1. st \in [Kegs -> Status]
  BY DEF RoomTypeOK, Status
<1>2. /\ status' = st
      /\ kegEvents' \in [Kegs -> [tapped : Nat, ended : Nat]]
      /\ LifeIsLoggedOnce'
  <2>1. SaveKegs(st, {currentKeg[t], k})
    OBVIOUS
  <2>2. status' = st
    BY <2>1 DEF SaveKegs
  <2> QED
    BY <1>1, <2>1, <2>2, SavedKegsAreLogged
<1>3. RoomTypeOK'
  BY <1>1, <1>2 DEF RoomTypeOK
<1>4. \A u \in Taps : currentKeg[u] # k
  BY NoKegAssumption DEF TappedKegIsOnTap, IsActive
<1>5. TappedKegIsOnTap'
  <2> SUFFICES ASSUME NEW u \in Taps, currentKeg'[u] # NoKeg
               PROVE  u \in taps' /\ status'[currentKeg'[u]] = "on_tap"
    BY DEF TappedKegIsOnTap, IsActive
  <2>1. CASE u = t
    BY <1>2, <2>1 DEF RoomTypeOK
  <2>2. CASE u # t
    <3>1. currentKeg'[u] = currentKeg[u] /\ currentKeg[u] # currentKeg[t]
      BY <2>2 DEF RoomTypeOK, KegOnOneTap, IsActive
    <3> QED
      BY <1>2, <1>4, <3>1 DEF TappedKegIsOnTap, IsActive, RoomTypeOK
  <2> QED
    BY <2>1, <2>2
<1>6. KegOnOneTap'
  BY <1>4 DEF KegOnOneTap, IsActive, RoomTypeOK
<1> QED
  BY <1>2, <1>3, <1>5, <1>6

\* Every request keeps the invariant.
LEMMA RoomNextInv == RoomInv /\ [RoomNext]_roomVars => RoomInv'
<1> SUFFICES ASSUME RoomInv, [RoomNext]_roomVars
             PROVE  RoomInv'
  OBVIOUS
<1> USE DEF RoomInv
<1>1. ASSUME NEW t \in Taps, AddTap(t)
      PROVE  RoomInv'
  BY <1>1 DEF AddTap, RoomTypeOK, TappedKegIsOnTap, IsActive, KegOnOneTap, LifeIsLoggedOnce
<1>2. ASSUME NEW t \in Taps, ApiDeleteTap(t)
      PROVE  RoomInv'
  <2>1. RoomTypeOK' /\ LifeIsLoggedOnce'
    BY <1>2 DEF ApiDeleteTap, RoomTypeOK, LifeIsLoggedOnce
  <2>2. TappedKegIsOnTap' /\ KegOnOneTap'
    BY <1>2 DEF ApiDeleteTap, RoomTypeOK, TappedKegIsOnTap, IsActive, KegOnOneTap
  <2> QED
    BY <2>1, <2>2
<1>3. ASSUME NEW t \in Taps, AdminDeleteTap(t)
      PROVE  RoomInv'
  BY <1>3, EndCurrentKegInv DEF AdminDeleteTap
<1>4. ASSUME NEW t \in Taps, EndTapKeg(t)
      PROVE  RoomInv'
  BY <1>4, EndCurrentKegInv DEF EndTapKeg
<1>5. ASSUME NEW t \in Taps, NEW k \in Kegs, ChangeKegRequest(t, k)
      PROVE  RoomInv'
  BY <1>5, ChangeKegInv
<1>6. ASSUME NEW t \in Taps, NEW k \in Kegs, AttachKeg(t, k)
      PROVE  RoomInv'
  <2> DEFINE st == [status EXCEPT ![k] = "on_tap"]
  <2>1. SaveKegs(st, {k}) /\ status' = st /\ st \in [Kegs -> Status]
    BY <1>6 DEF AttachKeg, SaveKegs, RoomTypeOK, Status
  <2>2. /\ kegEvents' \in [Kegs -> [tapped : Nat, ended : Nat]]
        /\ LifeIsLoggedOnce'
    BY <2>1, SavedKegsAreLogged DEF RoomTypeOK
  <2>3. RoomTypeOK'
    BY <1>6, <2>1, <2>2 DEF AttachKeg, RoomTypeOK
  <2>4. TappedKegIsOnTap'
    BY <1>6, <2>1 DEF AttachKeg, TappedKegIsOnTap, IsActive, RoomTypeOK
  <2>5. KegOnOneTap'
    BY <1>6 DEF AttachKeg, HasNoTap, KegOnOneTap, IsActive, RoomTypeOK
  <2> QED
    BY <2>2, <2>3, <2>4, <2>5
<1>7. ASSUME NEW k \in Kegs, AddKeg(k)
      PROVE  RoomInv'
  <2> DEFINE st == [status EXCEPT ![k] = "available"]
  <2>1. SaveKegs(st, {}) /\ status' = st /\ st \in [Kegs -> Status]
    BY <1>7 DEF AddKeg, SaveKegs, RoomTypeOK, Status
  <2>2. /\ kegEvents' \in [Kegs -> [tapped : Nat, ended : Nat]]
        /\ LifeIsLoggedOnce'
    BY <2>1, SavedKegsAreLogged DEF RoomTypeOK
  <2>3. RoomTypeOK' /\ KegOnOneTap'
    BY <1>7, <2>1, <2>2 DEF AddKeg, RoomTypeOK, KegOnOneTap, IsActive
  <2>4. TappedKegIsOnTap'
    BY <1>7, <2>1 DEF AddKeg, TappedKegIsOnTap, IsActive, RoomTypeOK
  <2> QED
    BY <2>2, <2>3, <2>4
<1>8. ASSUME NEW k \in Kegs, EndKeg(k)
      PROVE  RoomInv'
  <2> DEFINE st == [status EXCEPT ![k] = "finished"]
  <2>1. SaveKegs(st, {k}) /\ status' = st /\ st \in [Kegs -> Status]
    BY <1>8 DEF EndKeg, SaveKegs, RoomTypeOK, Status
  <2>2. /\ kegEvents' \in [Kegs -> [tapped : Nat, ended : Nat]]
        /\ LifeIsLoggedOnce'
    BY <2>1, SavedKegsAreLogged DEF RoomTypeOK
  <2>3. RoomTypeOK' /\ KegOnOneTap'
    BY <1>8, <2>1, <2>2 DEF EndKeg, RoomTypeOK, KegOnOneTap, IsActive
  <2>4. TappedKegIsOnTap'
    BY <1>8, <2>1 DEF EndKeg, HasNoTap, TappedKegIsOnTap, IsActive, RoomTypeOK
  <2> QED
    BY <2>2, <2>3, <2>4
<1>9. ASSUME NEW k \in Kegs, ReactivateKeg(k)
      PROVE  RoomInv'
  <2> DEFINE st == [status EXCEPT ![k] = "available"]
  <2>1. SaveKegs(st, {}) /\ status' = st /\ st \in [Kegs -> Status]
    BY <1>9 DEF ReactivateKeg, SaveKegs, RoomTypeOK, Status
  <2>2. /\ kegEvents' \in [Kegs -> [tapped : Nat, ended : Nat]]
        /\ LifeIsLoggedOnce'
    BY <2>1, SavedKegsAreLogged DEF RoomTypeOK
  <2>3. RoomTypeOK' /\ KegOnOneTap'
    BY <1>9, <2>1, <2>2 DEF ReactivateKeg, RoomTypeOK, KegOnOneTap, IsActive
  <2>4. TappedKegIsOnTap'
    BY <1>9, <2>1 DEF ReactivateKeg, TappedKegIsOnTap, IsActive, RoomTypeOK
  <2> QED
    BY <2>2, <2>3, <2>4
<1>10. ASSUME NEW k \in Kegs, CancelKeg(k)
       PROVE  RoomInv'
  <2>1. RoomTypeOK' /\ LifeIsLoggedOnce'
    BY <1>10 DEF CancelKeg, RoomTypeOK, Status, NoEvents, LifeIsLoggedOnce
  <2>2. TappedKegIsOnTap' /\ KegOnOneTap'
    BY <1>10 DEF CancelKeg, RoomTypeOK, TappedKegIsOnTap, IsActive, KegOnOneTap
  <2> QED
    BY <2>1, <2>2
<1>11. CASE UNCHANGED roomVars
  BY <1>11
     DEF roomVars, RoomTypeOK, TappedKegIsOnTap, IsActive, KegOnOneTap, LifeIsLoggedOnce
<1> QED
  BY <1>1, <1>2, <1>3, <1>4, <1>5, <1>6, <1>7, <1>8, <1>9, <1>10, <1>11 DEF RoomNext

\* RoomInv holds throughout, for any taps and any kegs.
THEOREM RoomInvariance == RoomSpec => []RoomInv
BY RoomInitInv, RoomNextInv, PTL DEF RoomSpec

-----------------------------------------------------------------------------

\* Taps, kegs, statuses and the counts of events keep their types.
THEOREM RoomTypeCorrect == RoomSpec => []RoomTypeOK
<1>1. RoomInv => RoomTypeOK
  BY DEF RoomInv
<1> QED
  BY <1>1, RoomInvariance, PTL

\* The keg a tap points at is on_tap, after any sequence of requests.
THEOREM TappedKegsAreOnTap == RoomSpec => []TappedKegIsOnTap
<1>1. RoomInv => TappedKegIsOnTap
  BY DEF RoomInv
<1> QED
  BY <1>1, RoomInvariance, PTL

\* No keg is ever connected to two taps.
THEOREM KegsAreOnOneTap == RoomSpec => []KegOnOneTap
<1>1. RoomInv => KegOnOneTap
  BY DEF RoomInv
<1> QED
  BY <1>1, RoomInvariance, PTL

\* The two events of a keg's life are logged when due, and once.
THEOREM LivesAreLoggedOnce == RoomSpec => []LifeIsLoggedOnce
<1>1. RoomInv => LifeIsLoggedOnce
  BY DEF RoomInv
<1> QED
  BY <1>1, RoomInvariance, PTL

\* A keg on tap is only ever ended or deleted.
THEOREM OnTapKegsOnlyEnd == RoomSpec => OnTapKegOnlyEnds
<1> DEFINE Ends == \A k \in Kegs : status[k] = "on_tap" =>
                     status'[k] \in {"on_tap", "finished", "absent"}
<1>1. RoomInv /\ [RoomNext]_roomVars => [Ends]_roomVars
  <2> SUFFICES ASSUME RoomTypeOK, RoomNext
               PROVE  Ends
    BY DEF RoomInv
  <2> USE DEF SaveKegs
  <2>1. ASSUME NEW t \in Taps, AddTap(t) \/ ApiDeleteTap(t) \/ AdminDeleteTap(t) \/ EndTapKeg(t)
        PROVE  Ends
    BY <2>1 DEF RoomTypeOK, AddTap, ApiDeleteTap, AdminDeleteTap, EndTapKeg, EndCurrentKeg
  <2>2. ASSUME NEW t \in Taps, NEW k \in Kegs, ChangeKegRequest(t, k) \/ AttachKeg(t, k)
        PROVE  Ends
    BY <2>2 DEF RoomTypeOK, ChangeKegRequest, ChangeKeg, AttachKeg
  <2>3. ASSUME NEW k \in Kegs, AddKeg(k) \/ EndKeg(k) \/ ReactivateKeg(k) \/ CancelKeg(k)
        PROVE  Ends
    BY <2>3 DEF RoomTypeOK, AddKeg, EndKeg, ReactivateKeg, CancelKeg
  <2> QED
    BY <2>1, <2>2, <2>3 DEF RoomNext
<1> QED
  BY <1>1, RoomInvariance, PTL DEF RoomSpec, OnTapKegOnlyEnds

\* A keg that stays on tap stays on a tap, but for the API's deletion of the tap: every
\* other request that frees a tap ends the keg with it.
THEOREM KegsStayConnected == RoomSpec => OnlyDeletedTapsLoseKegs
<1> DEFINE Keeps == \A k \in Kegs :
             status[k] = "on_tap" /\ status'[k] = "on_tap" /\ ~HasNoTap(k) =>
               \E t \in Taps :
                 \/ currentKeg'[t] = k
                 \/ currentKeg[t] = k /\ t \in taps /\ t \notin taps'
<1>1. RoomInv /\ [RoomNext]_roomVars => [Keeps]_roomVars
  <2> DEFINE Kept(k) == \E t \in Taps :
               \/ currentKeg'[t] = k
               \/ currentKeg[t] = k /\ t \in taps /\ t \notin taps'
  <2> SUFFICES ASSUME RoomTypeOK, RoomNext, NEW k \in Kegs,
                      status[k] = "on_tap", status'[k] = "on_tap",
                      NEW u \in Taps, currentKeg[u] = k
               PROVE  Kept(k)
    BY DEF RoomInv, HasNoTap
  <2>1. ASSUME NEW t \in Taps, AddTap(t)
        PROVE  Kept(k)
    BY <2>1 DEF AddTap
  <2>2. ASSUME NEW t \in Taps, ApiDeleteTap(t)
        PROVE  Kept(k)
    BY <2>2 DEF ApiDeleteTap, RoomTypeOK
  <2>3. ASSUME NEW t \in Taps, EndCurrentKeg(t)
        PROVE  Kept(k)
    <3>1. currentKeg[t] # k
      BY <2>3 DEF EndCurrentKeg, SaveKegs
    <3> QED
      BY <2>3, <3>1 DEF EndCurrentKeg, RoomTypeOK
  <2>4. ASSUME NEW t \in Taps, NEW l \in Kegs, ChangeKegRequest(t, l)
        PROVE  Kept(k)
    <3>1. k # l
      BY <2>4 DEF ChangeKegRequest, ChangeKeg
    <3>2. currentKeg[t] # k
      BY <2>4, <3>1 DEF ChangeKegRequest, ChangeKeg, SaveKegs
    <3> QED
      BY <2>4, <3>2 DEF ChangeKegRequest, ChangeKeg, RoomTypeOK
  <2>5. ASSUME NEW t \in Taps, NEW l \in Kegs, AttachKeg(t, l)
        PROVE  Kept(k)
    <3>1. t # u
      BY <2>5, NoKegAssumption DEF AttachKeg, IsActive
    <3> QED
      BY <2>5, <3>1 DEF AttachKeg, RoomTypeOK
  <2>6. ASSUME NEW l \in Kegs, AddKeg(l) \/ EndKeg(l) \/ ReactivateKeg(l)
        PROVE  Kept(k)
    BY <2>6 DEF AddKeg, EndKeg, ReactivateKeg
  <2>7. ASSUME NEW l \in Kegs, CancelKeg(l)
        PROVE  Kept(k)
    BY <2>7 DEF CancelKeg, RoomTypeOK
  <2> QED
    BY <2>1, <2>2, <2>3, <2>4, <2>5, <2>6, <2>7 DEF RoomNext, AdminDeleteTap, EndTapKeg
<1> QED
  BY <1>1, RoomInvariance, PTL DEF RoomSpec, OnlyDeletedTapsLoseKegs

=============================================================================
