--------------------------- MODULE Kegbot_proofs ---------------------------
(***************************************************************************)
(* What is proved of Kegbot for any taps, kegs, users and volumes, and     *)
(* whatever the bounds.                                                    *)
(*                                                                         *)
(* First, Kegbot implements TapRoom.  Each request of Kegbot is one of     *)
(* TapRoom with more said about the ledger, or leaves the room alone.  A   *)
(* pour is of the second kind only thanks to TapRoom's invariant: the code *)
(* runs build_events_for_keg after every drink, and it adds nothing        *)
(* because a tapped keg is on_tap and already announced.                   *)
(*                                                                         *)
(* Then, the events agree with the drinks and drinks come from tapped kegs *)
(* only, by an invariant that says which rows there are.  Nothing of it    *)
(* depends on how volumes are summed or times compared.  Each method of    *)
(* the ledger has a lemma that says what it does to the rows.              *)
(*                                                                         *)
(* Then, the times of a keg that is off its tap cover its drinks: every    *)
(* request either leaves the times of such a keg and of its drinks alone,  *)
(* puts it on a tap, or saves it through PreSave, which covers them.       *)
(*                                                                         *)
(* Last, the totals.  Each method changes a running total by as much as it *)
(* changes the sum over the drinks (Volumes_proofs), or leaves a row for   *)
(* Rebuild, which computes it from what is there.                          *)
(***************************************************************************)
EXTENDS Kegbot, Volumes_proofs

\* TapRoom with what is proved of it.
P == INSTANCE TapRoom_proofs

-----------------------------------------------------------------------------
(* Kegbot implements TapRoom *)

\* The two instances of TapRoom are the same specification.
LEMMA RoomsAreTheSame ==
  (Room!RoomInit <=> P!RoomInit) /\ (Room!RoomNext <=> P!RoomNext)
BY DEF Room!RoomInit, Room!RoomNext, Room!AddTap, Room!ApiDeleteTap, Room!AdminDeleteTap,
       Room!EndTapKeg, Room!ChangeKegRequest, Room!ChangeKeg, Room!AttachKeg, Room!AddKeg,
       Room!EndKeg, Room!ReactivateKeg, Room!CancelKeg, Room!SaveKegs, Room!EndCurrentKeg,
       Room!BuildEventsForKeg, Room!IsActive, Room!HasNoTap, Room!NoEvents,
       P!RoomInit, P!RoomNext, P!AddTap, P!ApiDeleteTap, P!AdminDeleteTap,
       P!EndTapKeg, P!ChangeKegRequest, P!ChangeKeg, P!AttachKeg, P!AddKeg,
       P!EndKeg, P!ReactivateKeg, P!CancelKeg, P!SaveKegs, P!EndCurrentKeg,
       P!BuildEventsForKeg, P!IsActive, P!HasNoTap, P!NoEvents

\* A pour leaves the room alone: the keg's events are complete.
LEMMA PourLeavesRoom ==
  ASSUME P!RoomInv, NEW t \in Taps, Room!IsActive(t),
         Room!SaveKegs(status, {currentKeg[t]}), UNCHANGED <<taps, currentKeg>>
  PROVE  UNCHANGED roomVars
<1>1. /\ currentKeg[t] \in Kegs /\ status[currentKeg[t]] = "on_tap"
      /\ kegEvents \in [Kegs -> [tapped : Nat, ended : Nat]]
  BY DEF P!RoomInv, P!RoomTypeOK, P!TappedKegIsOnTap, P!IsActive, Room!IsActive
<1>2. kegEvents[currentKeg[t]].tapped = 1
  BY <1>1 DEF P!RoomInv, P!LifeIsLoggedOnce
<1>3. Room!BuildEventsForKeg(kegEvents[currentKeg[t]], "on_tap") = kegEvents[currentKeg[t]]
  BY <1>1, <1>2 DEF Room!BuildEventsForKeg
<1>4. kegEvents' = kegEvents
  BY <1>1, <1>3 DEF Room!SaveKegs
<1> QED
  BY <1>4 DEF Room!SaveKegs, roomVars

\* Each request of Kegbot is a request of TapRoom, or leaves the room alone.
LEMMA RequestsAreRoomRequests ==
  P!RoomInv /\ [Next]_vars => [Room!RoomNext]_roomVars
<1> SUFFICES ASSUME P!RoomInv, [Next]_vars
             PROVE  [Room!RoomNext]_roomVars
  OBVIOUS
<1>1. CASE Tick
  BY <1>1 DEF Tick, roomVars
<1>2. ASSUME NEW t \in Taps,
             AddTap(t) \/ ApiDeleteTap(t) \/ AdminDeleteTap(t) \/ EndTapKeg(t)
      PROVE  Room!RoomNext
  BY <1>2 DEF Room!RoomNext, AddTap, ApiDeleteTap, AdminDeleteTap, EndTapKeg
<1>3. ASSUME NEW t \in Taps, NEW k \in Kegs, ChangeKeg(t, k) \/ AttachKeg(t, k)
      PROVE  Room!RoomNext
  BY <1>3 DEF Room!RoomNext, ChangeKeg, AttachKeg
<1>4. ASSUME NEW k \in Kegs, AddKeg(k) \/ EndKeg(k) \/ ReactivateKeg(k) \/ CancelKeg(k)
      PROVE  Room!RoomNext
  BY <1>4 DEF Room!RoomNext, AddKeg, EndKeg, ReactivateKeg, CancelKeg
<1>5. ASSUME NEW t \in Taps, NEW u \in Users, NEW v \in Volumes, NEW time \in Time,
             Pour(t, u, v, time)
      PROVE  UNCHANGED roomVars
  BY <1>5, PourLeavesRoom DEF Pour
<1>6. ASSUME NEW t \in Taps, NEW v \in Volumes, Spill(t, v)
      PROVE  UNCHANGED roomVars
  BY <1>6 DEF Spill
<1>7. ASSUME NEW k \in Kegs, NEW full \in FullVolumes, NEW spilled \in 0 .. MaxSpilled,
             EditKeg(k, full, spilled)
      PROVE  UNCHANGED roomVars
  BY <1>7 DEF EditKeg
<1>8. ASSUME NEW d \in DOMAIN drink, EditDrink(d)
      PROVE  UNCHANGED roomVars
  BY <1>8 DEF EditDrink
<1>9. CASE UNCHANGED vars
  BY <1>9 DEF vars
<1> QED
  BY <1>1, <1>2, <1>3, <1>4, <1>5, <1>6, <1>7, <1>8, <1>9 DEF Next

\* The invariant proved of TapRoom holds at the start of Kegbot ...
LEMMA RoomInitHolds == Init => P!RoomInv
<1>1. P!RoomInit => P!RoomInv
  BY LedgerAssumption, P!RoomInitInv
<1> QED
  BY <1>1, RoomsAreTheSame DEF Init

\* ... and is kept by its requests.
LEMMA RoomInvIsKept == P!RoomInv /\ [Next]_vars => P!RoomInv'
<1>1. P!RoomInv /\ [P!RoomNext]_(P!roomVars) => P!RoomInv'
  BY LedgerAssumption, P!RoomNextInv
<1> QED
  BY <1>1, RequestsAreRoomRequests, RoomsAreTheSame DEF roomVars, P!roomVars

\* Whatever happens to drinks, taps and kegs obey TapRoom's invariant.
THEOREM KegbotKeepsRoomInv == Spec => []P!RoomInv
BY RoomInitHolds, RoomInvIsKept, PTL DEF Spec

\* Kegbot implements TapRoom: every behaviour of the core, seen through its taps,
\* kegs, statuses and keg events, is one of TapRoom.
THEOREM KegbotImplementsTapRoom == Spec => ImplementsTapRoom
<1>1. Init => Room!RoomInit
  BY DEF Init
<1>2. P!RoomInv /\ [Next]_vars => [Room!RoomNext]_(Room!roomVars)
  BY RequestsAreRoomRequests DEF roomVars, Room!roomVars
<1> QED
  BY <1>1, <1>2, KegbotKeepsRoomInv, PTL DEF Spec, ImplementsTapRoom, Room!RoomSpec

-----------------------------------------------------------------------------
(* Which rows there are and whom they name *)

\* Which rows there are.  Drinks are numbered in the order they are recorded.
LedgerShape ==
  /\ DOMAIN keg = Kegs
  /\ lastDrink \in 0 .. MaxDrinks
  /\ \A d \in DOMAIN drink : d \in 1 .. lastDrink /\ drink[d] \in DrinkRow
  /\ DOMAIN session \subseteq DrinkIds
  /\ events \subseteq EventRow

DrinkInv == LedgerShape /\ EventsAgreeWithDrinks

\* What a ledger method leaves of the rows of the kegs other than k.
OnlyAbout(k) ==
  \A x \in Kegs \ {k} :
    /\ keg'[x] = keg[x]
    /\ DrinksOfKeg(drink', x) = DrinksOfKeg(drink, x)
    /\ (\A e \in events : e.keg # x) => (\A e \in events' : e.keg # x)

KegRowsKeepDrinks == UNCHANGED <<drink, session, events, lastDrink>>

-----------------------------------------------------------------------------
(* Pours *)

LEMMA NewEvents ==
  ASSUME NEW d \in DrinkIds, NEW row \in DrinkRow, NEW kegRow,
         NEW e \in BuildEventsForDrink(d, row, kegRow)
  PROVE  /\ e \in EventRow
         /\ e = Event(e.kind, d, row, e.keg)
         /\ e.drink = d /\ e.keg \in {NoKeg, row.keg}
         /\ e.kind = "session_started" => ~Logged("session_started", row.session, Users)
BY DEF BuildEventsForDrink, Event, EventRow, DrinkRow, Logged

LEMMA RecordDrinkKeeps ==
  ASSUME DrinkInv, NEW k \in Kegs, NEW u \in Users, NEW v \in Volumes, NEW t \in Time,
         RecordDrink(k, u, v, t)
  PROVE  DrinkInv' /\ OnlyAbout(k)
<1> DEFINE d == lastDrink + 1
           kegRow == [keg[k] EXCEPT !.served = @ + v]
<1> USE DEF DrinkInv
<1>1. PICK s \in AssignedSessions(d, t), timeout \in Timeouts :
        LET row == [keg |-> k, user |-> u, volume |-> v, time |-> t, session |-> s]
            base == IF s = d THEN [start |-> t, end |-> t, volume |-> 0] ELSE session[s]
        IN  /\ drink' = [x \in DOMAIN drink \cup {d} |-> IF x = d THEN row ELSE drink[x]]
            /\ session' = [x \in DOMAIN session \cup {s} |->
                             IF x = s THEN AddDrink(base, v, t, timeout) ELSE session[x]]
            /\ events' = events \cup BuildEventsForDrink(d, row, kegRow)
  BY DEF RecordDrink
<1> DEFINE row == [keg |-> k, user |-> u, volume |-> v, time |-> t, session |-> s]
           new == BuildEventsForDrink(d, row, kegRow)
<1>2. d \in DrinkIds /\ d \notin DOMAIN drink /\ lastDrink' = d /\ d \in 0 .. MaxDrinks
  BY LedgerAssumption DEF RecordDrink, LedgerShape, DrinkIds
<1>3. s \in DrinkIds
  BY <1>2 DEF AssignedSessions, LedgerShape
<1>4. row \in DrinkRow
  BY <1>3 DEF DrinkRow
<1>5. /\ DOMAIN drink' = DOMAIN drink \cup {d}
      /\ drink'[d] = row
      /\ \A x \in DOMAIN drink : drink'[x] = drink[x]
  BY <1>1, <1>2
<1>6. events' = events \cup new
  BY <1>1
<1>7. keg' = [keg EXCEPT ![k] = kegRow]
  BY DEF RecordDrink
<1> HIDE DEF d, kegRow, row, new
<1>8. LedgerShape'
  <2>1. DOMAIN keg' = Kegs
    BY <1>7 DEF LedgerShape
  <2>2. lastDrink' \in 0 .. MaxDrinks
    BY <1>2
  <2>3. \A x \in DOMAIN drink' : x \in 1 .. lastDrink' /\ drink'[x] \in DrinkRow
    BY <1>2, <1>4, <1>5, LedgerAssumption DEF LedgerShape, d, DrinkIds
  <2>4. DOMAIN session' \subseteq DrinkIds
    BY <1>1, <1>3 DEF LedgerShape
  <2>5. events' \subseteq EventRow
    BY <1>2, <1>4, <1>6, NewEvents DEF LedgerShape, new
  <2> QED
    BY <2>1, <2>2, <2>3, <2>4, <2>5 DEF LedgerShape
<1>9. EventsAgreeWithDrinks'
  <2>1. ASSUME NEW x \in DOMAIN drink'
        PROVE  Event("drink_poured", x, drink'[x], drink'[x].keg) \in events'
    <3>1. CASE x = d
      <4>1. Event("drink_poured", d, row, row.keg) \in new
        BY DEF new, BuildEventsForDrink
      <4> QED
        BY <3>1, <4>1, <1>5, <1>6
    <3>2. CASE x \in DOMAIN drink
      BY <3>2, <1>5, <1>6 DEF EventsAgreeWithDrinks
    <3> QED
      BY <3>1, <3>2, <1>5
  <2>2. ASSUME NEW e \in events'
        PROVE  /\ e.drink \in DOMAIN drink'
               /\ e = Event(e.kind, e.drink, drink'[e.drink], e.keg)
               /\ e.keg \in {NoKeg, drink'[e.drink].keg}
    <3>1. CASE e \in new
      BY <3>1, <1>2, <1>4, <1>5, NewEvents DEF new
    <3>2. CASE e \in events
      BY <3>2, <1>5 DEF EventsAgreeWithDrinks
    <3> QED
      BY <3>1, <3>2, <1>6
  <2>3. ASSUME NEW e \in events', NEW f \in events',
               e.kind = "session_started", f.kind = "session_started", e.session = f.session
        PROVE  e = f
    <3>1. CASE e \in events /\ f \in events
      BY <2>3, <3>1 DEF EventsAgreeWithDrinks
    <3>2. CASE e \in new /\ f \in new
      <4>1. e = Event("session_started", d, row, e.keg) /\ f = Event("session_started", d, row, f.keg)
        BY <1>2, <1>4, <2>3, <3>2, NewEvents DEF new
      <4>2. e.keg = NoKeg /\ f.keg = NoKeg
        BY <2>3, <3>2 DEF new, BuildEventsForDrink, Event
      <4> QED
        BY <4>1, <4>2
    <3>3. ASSUME NEW g \in events, NEW h \in new,
                 g.kind = "session_started", h.kind = "session_started", g.session = h.session
          PROVE  FALSE
      <4>1. h.session = row.session /\ ~Logged("session_started", row.session, Users)
        BY <1>2, <1>4, <3>3, NewEvents DEF new, Event
      <4>2. g.user \in Users
        BY DEF LedgerShape, EventRow
      <4> QED
        BY <3>3, <4>1, <4>2 DEF Logged
    <3> QED
      BY <1>6, <2>3, <3>1, <3>2, <3>3
  <2> QED
    BY <2>1, <2>2, <2>3 DEF EventsAgreeWithDrinks
<1>10. OnlyAbout(k)
  <2> SUFFICES ASSUME NEW x \in Kegs \ {k}
               PROVE  /\ keg'[x] = keg[x]
                      /\ DrinksOfKeg(drink', x) = DrinksOfKeg(drink, x)
                      /\ (\A e \in events : e.keg # x) => (\A e \in events' : e.keg # x)
    BY DEF OnlyAbout
  <2>1. keg'[x] = keg[x]
    BY <1>7 DEF LedgerShape
  <2>2. row.keg = k
    BY DEF row
  <2>3. DrinksOfKeg(drink', x) = DrinksOfKeg(drink, x)
    BY <1>2, <1>5, <2>2 DEF DrinksOfKeg
  <2>4. \A e \in new : e.keg # x
    BY <1>2, <1>4, <2>2, LedgerAssumption, NewEvents DEF new
  <2> QED
    BY <1>6, <2>1, <2>3, <2>4
<1> QED
  BY <1>8, <1>9, <1>10

-----------------------------------------------------------------------------
(* Changes to drinks *)

\* Drinks ds and their events are deleted, with any other events that name no
\* remaining drink.
LEMMA DeletionKeeps ==
  ASSUME DrinkInv, NEW ds, drink' = Without(drink, ds), UNCHANGED lastDrink,
         DOMAIN keg' = Kegs, DOMAIN session' \subseteq DOMAIN session,
         events' = {e \in events : e.drink \notin ds}
  PROVE  DrinkInv'
<1> USE DEF DrinkInv
<1>1. /\ DOMAIN drink' = DOMAIN drink \ ds
      /\ \A d \in DOMAIN drink' : drink'[d] = drink[d]
  BY DEF Without
<1>2. LedgerShape'
  BY <1>1 DEF LedgerShape
<1>3. ASSUME NEW d \in DOMAIN drink'
      PROVE  Event("drink_poured", d, drink'[d], drink'[d].keg) \in events'
  <2>1. Event("drink_poured", d, drink[d], drink[d].keg) \in events
    BY <1>1 DEF EventsAgreeWithDrinks
  <2> QED
    BY <1>1, <2>1 DEF Event
<1>4. ASSUME NEW e \in events'
      PROVE  /\ e.drink \in DOMAIN drink'
             /\ e = Event(e.kind, e.drink, drink'[e.drink], e.keg)
             /\ e.keg \in {NoKeg, drink'[e.drink].keg}
  BY <1>1 DEF EventsAgreeWithDrinks
<1>5. \A e, f \in events' : e.kind = "session_started" /\ f.kind = e.kind
                            /\ e.session = f.session => e = f
  BY DEF EventsAgreeWithDrinks
<1> QED
  BY <1>2, <1>3, <1>4, <1>5 DEF EventsAgreeWithDrinks

LEMMA RebuildShrinks ==
  ASSUME NEW ss, NEW D, SessionsRebuilt(ss, D)
  PROVE  DOMAIN session' \subseteq DOMAIN session
BY DEF SessionsRebuilt, Rebuild

LEMMA CancelDrinkKeeps ==
  ASSUME DrinkInv, NEW d \in DOMAIN drink, NEW spilled \in BOOLEAN, CancelDrink(d, spilled)
  PROVE  DrinkInv' /\ OnlyAbout(drink[d].keg)
<1> USE DEF DrinkInv
<1> DEFINE k == drink[d].keg
<1>1. /\ drink' = Without(drink, {d}) /\ UNCHANGED lastDrink
      /\ events' = {e \in events : e.drink \notin {d}}
      /\ SessionsRebuilt({drink[d].session}, Without(drink, {d}))
  BY DEF CancelDrink
<1>2. DOMAIN keg' = Kegs /\ \A x \in Kegs \ {k} : keg'[x] = keg[x]
  BY DEF CancelDrink, LedgerShape
<1>3. DOMAIN session' \subseteq DOMAIN session
  BY <1>1, RebuildShrinks
<1>4. DrinkInv'
  BY <1>1, <1>2, <1>3, DeletionKeeps
<1>5. \A x \in Kegs \ {k} : DrinksOfKeg(drink', x) = DrinksOfKeg(drink, x)
  BY <1>1 DEF DrinksOfKeg, Without
<1> QED
  BY <1>1, <1>2, <1>4, <1>5 DEF OnlyAbout

LEMMA ReassignKeeps ==
  ASSUME DrinkInv, NEW d \in DOMAIN drink, NEW u \in Users, Reassign(d, u)
  PROVE  DrinkInv' /\ OnlyAbout(drink[d].keg)
<1> DEFINE row == [drink[d] EXCEPT !.user = u]
           moved(e) == IF e.drink = d THEN [e EXCEPT !.user = u] ELSE e
<1> USE DEF DrinkInv
<1>1. /\ drink' = [drink EXCEPT ![d] = row]
      /\ events' = {moved(e) : e \in events}
      /\ SessionsRebuilt({drink[d].session}, drink')
      /\ keg' = keg /\ lastDrink' = lastDrink
  BY DEF Reassign
<1>2. /\ DOMAIN drink' = DOMAIN drink
      /\ drink'[d] = row
      /\ \A x \in DOMAIN drink \ {d} : drink'[x] = drink[x]
  BY <1>1
<1>3. /\ row \in DrinkRow
      /\ row.keg = drink[d].keg /\ row.session = drink[d].session /\ row.user = u
  BY DEF LedgerShape, DrinkRow
<1>4. ASSUME NEW e \in events
      PROVE  /\ moved(e) \in EventRow
             /\ moved(e).kind = e.kind /\ moved(e).drink = e.drink
             /\ moved(e).session = e.session /\ moved(e).keg = e.keg
             /\ moved(e).user = IF e.drink = d THEN u ELSE e.user
  BY DEF LedgerShape, EventRow
<1> HIDE DEF row, moved
<1>5. LedgerShape'
  <2>1. DOMAIN session' \subseteq DrinkIds
    BY <1>1, RebuildShrinks DEF LedgerShape
  <2>2. events' \subseteq EventRow
    BY <1>1, <1>4
  <2>3. \A x \in DOMAIN drink' : x \in 1 .. lastDrink' /\ drink'[x] \in DrinkRow
    BY <1>1, <1>2, <1>3 DEF LedgerShape
  <2> QED
    BY <1>1, <2>1, <2>2, <2>3 DEF LedgerShape
<1>6. ASSUME NEW x \in DOMAIN drink'
      PROVE  Event("drink_poured", x, drink'[x], drink'[x].keg) \in events'
  <2> DEFINE e == Event("drink_poured", x, drink[x], drink[x].keg)
  <2>1. e \in events
    BY <1>2 DEF EventsAgreeWithDrinks
  <2>2. moved(e) \in events'
    BY <1>1, <2>1
  <2>3. moved(e) = Event("drink_poured", x, drink'[x], drink'[x].keg)
    BY <1>2, <1>3 DEF moved, Event
  <2> QED
    BY <2>2, <2>3
<1>7. ASSUME NEW e \in events'
      PROVE  /\ e.drink \in DOMAIN drink'
             /\ e = Event(e.kind, e.drink, drink'[e.drink], e.keg)
             /\ e.keg \in {NoKeg, drink'[e.drink].keg}
  <2>1. PICK f \in events : e = moved(f)
    BY <1>1
  <2>2. /\ f.drink \in DOMAIN drink
        /\ f = Event(f.kind, f.drink, drink[f.drink], f.keg)
        /\ f.keg \in {NoKeg, drink[f.drink].keg}
    BY DEF EventsAgreeWithDrinks
  <2>3. e = Event(f.kind, f.drink, drink'[f.drink], f.keg)
    <3>1. CASE f.drink = d
      BY <1>2, <1>3, <2>1, <2>2, <3>1 DEF moved, Event
    <3>2. CASE f.drink # d
      BY <1>2, <2>1, <2>2, <3>2 DEF moved
    <3> QED
      BY <3>1, <3>2
  <2>4. e.kind = f.kind /\ e.drink = f.drink /\ e.keg = f.keg
    BY <1>4, <2>1
  <2>5. drink'[f.drink].keg = drink[f.drink].keg
    BY <1>2, <1>3, <2>2
  <2>6. e = Event(e.kind, e.drink, drink'[e.drink], e.keg)
    BY <2>3, <2>4
  <2> QED
    BY <1>2, <2>2, <2>4, <2>5, <2>6
<1>8. ASSUME NEW e \in events', NEW f \in events',
             e.kind = "session_started", f.kind = e.kind, e.session = f.session
      PROVE  e = f
  <2>1. PICK e0 \in events : e = moved(e0)
    BY <1>1
  <2>2. PICK f0 \in events : f = moved(f0)
    BY <1>1
  <2>3. e0 = f0
    BY <1>4, <1>8, <2>1, <2>2 DEF EventsAgreeWithDrinks
  <2> QED
    BY <2>1, <2>2, <2>3
<1>9. EventsAgreeWithDrinks'
  BY <1>6, <1>7, <1>8 DEF EventsAgreeWithDrinks
<1>10. OnlyAbout(drink[d].keg)
  <2>1. \A x \in Kegs : DrinksOfKeg(drink', x) = DrinksOfKeg(drink, x)
    BY <1>2, <1>3 DEF DrinksOfKeg
  <2>2. \A x \in Kegs : (\A e \in events : e.keg # x) => (\A e \in events' : e.keg # x)
    BY <1>1, <1>4
  <2> QED
    BY <1>1, <2>1, <2>2 DEF OnlyAbout
<1> QED
  BY <1>5, <1>9, <1>10

LEMMA SetVolumeKeeps ==
  ASSUME DrinkInv, NEW d \in DOMAIN drink, NEW v \in Volumes, SetVolume(d, v)
  PROVE  DrinkInv' /\ OnlyAbout(drink[d].keg)
<1> DEFINE row == [drink[d] EXCEPT !.volume = v]
<1> USE DEF DrinkInv
<1>1. /\ drink' = [drink EXCEPT ![d] = row]
      /\ SessionsRebuilt({drink[d].session}, drink')
      /\ events' = events /\ lastDrink' = lastDrink
  BY DEF SetVolume
<1>2. DOMAIN keg' = Kegs /\ \A x \in Kegs \ {drink[d].keg} : keg'[x] = keg[x]
  BY DEF SetVolume, LedgerShape
<1>3. /\ row \in DrinkRow
      /\ row.keg = drink[d].keg /\ row.session = drink[d].session /\ row.user = drink[d].user
  BY DEF LedgerShape, DrinkRow
<1>4. /\ DOMAIN drink' = DOMAIN drink
      /\ \A x \in DOMAIN drink :
           /\ drink'[x] \in DrinkRow
           /\ drink'[x].keg = drink[x].keg
           /\ drink'[x].session = drink[x].session
           /\ drink'[x].user = drink[x].user
  BY <1>1, <1>3 DEF LedgerShape
<1>5. LedgerShape'
  BY <1>1, <1>2, <1>4, RebuildShrinks DEF LedgerShape
<1>6. EventsAgreeWithDrinks'
  BY <1>1, <1>4 DEF EventsAgreeWithDrinks, Event
<1>7. OnlyAbout(drink[d].keg)
  BY <1>1, <1>2, <1>4 DEF OnlyAbout, DrinksOfKeg
<1> QED
  BY <1>5, <1>6, <1>7

LEMMA EraseKegKeeps ==
  ASSUME DrinkInv, NEW k \in Kegs, EraseKeg(k)
  PROVE  /\ DrinkInv' /\ OnlyAbout(k)
         /\ keg'[k] = EmptyKeg
         /\ DrinksOfKeg(drink', k) = {}
         /\ \A e \in events' : e.keg # k
<1> USE DEF DrinkInv
<1> DEFINE gone == DrinksOfKeg(drink, k)
<1>1. /\ drink' = Without(drink, gone) /\ UNCHANGED lastDrink
      /\ SessionsRebuilt({drink[d].session : d \in gone}, Without(drink, gone))
      /\ keg' = [keg EXCEPT ![k] = EmptyKeg]
      /\ events' = {e \in events : e.drink \notin gone /\ e.keg # k}
  BY DEF EraseKeg
<1>2. events' = {e \in events : e.drink \notin gone}
  <2>1. ASSUME NEW e \in events, e.keg = k
        PROVE  e.drink \in gone
    BY <2>1, LedgerAssumption DEF EventsAgreeWithDrinks, DrinksOfKeg
  <2> QED
    BY <1>1, <2>1
<1>3. DOMAIN keg' = Kegs /\ keg'[k] = EmptyKeg /\ \A x \in Kegs \ {k} : keg'[x] = keg[x]
  BY <1>1 DEF LedgerShape
<1>4. DOMAIN session' \subseteq DOMAIN session
  BY <1>1, RebuildShrinks
<1>5. DrinkInv'
  BY <1>1, <1>2, <1>3, <1>4, DeletionKeeps
<1>6. /\ DrinksOfKeg(drink', k) = {}
      /\ \A x \in Kegs \ {k} : DrinksOfKeg(drink', x) = DrinksOfKeg(drink, x)
  BY <1>1 DEF DrinksOfKeg, Without
<1> QED
  BY <1>1, <1>3, <1>5, <1>6 DEF OnlyAbout

\* A method that only changes Keg rows changes no drink and no event.
LEMMA KegRowsKeep ==
  ASSUME DrinkInv, KegRowsKeepDrinks, DOMAIN keg' = Kegs
  PROVE  /\ DrinkInv'
         /\ \A x \in Kegs : DrinksOfKeg(drink', x) = DrinksOfKeg(drink, x)
BY DEF DrinkInv, LedgerShape, EventsAgreeWithDrinks, KegRowsKeepDrinks, DrinksOfKeg

-----------------------------------------------------------------------------
(* Requests *)

KegbotInv == P!RoomInv /\ DrinkInv /\ DrinksComeFromTappedKegs

\* What every request but the deletion of a keg leaves of the room: no row of a keg
\* is gone, and no announcement.
RowsStay ==
  \A k \in Kegs : /\ status'[k] = "absent" => status[k] = "absent"
                  /\ kegEvents[k].tapped = 1 => kegEvents'[k].tapped = 1

LEMMA SaveKegsStays ==
  ASSUME P!RoomInv, NEW st, NEW changed, Room!SaveKegs(st, changed),
         \A k \in Kegs : st[k] = "absent" => status[k] = "absent"
  PROVE  status' = st /\ RowsStay
BY DEF Room!SaveKegs, Room!BuildEventsForKeg, RowsStay, P!RoomInv, P!RoomTypeOK

\* A request that changes Keg rows only, and those of kegs that are there.
LEMMA KegRowRequest ==
  ASSUME KegbotInv, RowsStay, KegRowsKeepDrinks, DOMAIN keg' = Kegs,
         \A k \in Kegs : status'[k] = "absent" => keg'[k] = keg[k]
  PROVE  DrinkInv' /\ DrinksComeFromTappedKegs'
<1>1. /\ DrinkInv'
      /\ \A k \in Kegs : DrinksOfKeg(drink', k) = DrinksOfKeg(drink, k)
  BY KegRowsKeep DEF KegbotInv
<1>2. events' = events
  BY DEF KegRowsKeepDrinks
<1> QED
  BY <1>1, <1>2 DEF KegbotInv, RowsStay, DrinksComeFromTappedKegs

\* A request about the drinks of a keg that was announced and is still there.
LEMMA DrinkRequest ==
  ASSUME KegbotInv, RowsStay, NEW k \in Kegs, DrinkInv', OnlyAbout(k),
         status'[k] # "absent", kegEvents'[k].tapped = 1
  PROVE  DrinksComeFromTappedKegs'
<1> SUFFICES ASSUME NEW x \in Kegs \ {k}
             PROVE  /\ DrinksOfKeg(drink', x) # {} => kegEvents'[x].tapped = 1
                    /\ status'[x] = "absent" => /\ keg'[x] = EmptyKeg
                                                /\ DrinksOfKeg(drink', x) = {}
                                                /\ \A e \in events' : e.keg # x
  BY DEF DrinksComeFromTappedKegs
<1> QED
  BY DEF KegbotInv, RowsStay, OnlyAbout, DrinksComeFromTappedKegs

LEMMA TapRequestsKeep ==
  ASSUME KegbotInv, NEW t \in Taps,
         AddTap(t) \/ ApiDeleteTap(t) \/ AdminDeleteTap(t) \/ EndTapKeg(t)
  PROVE  DrinkInv' /\ DrinksComeFromTappedKegs'
<1>1. DOMAIN keg = Kegs
  BY DEF KegbotInv, DrinkInv, LedgerShape
<1>2. CASE AddTap(t) \/ ApiDeleteTap(t)
  <2>1. RowsStay /\ KegRowsKeepDrinks /\ keg' = keg
    BY <1>2 DEF AddTap, ApiDeleteTap, Room!AddTap, Room!ApiDeleteTap, ledgerVars, RowsStay,
                KegRowsKeepDrinks
  <2> QED
    BY <1>1, <2>1, KegRowRequest
<1>3. CASE AdminDeleteTap(t) \/ EndTapKeg(t)
  <2> DEFINE st == [k \in Kegs |-> IF k = currentKeg[t] THEN "finished" ELSE status[k]]
  <2>1. Room!SaveKegs(st, {currentKeg[t]}) /\ KegRowsBecome(RowsWithEnded(t))
    BY <1>3 DEF AdminDeleteTap, EndTapKeg, Room!AdminDeleteTap, Room!EndTapKeg,
                Room!EndCurrentKeg
  <2>2. status' = st /\ RowsStay
    BY <2>1, SaveKegsStays DEF KegbotInv
  <2>3. /\ KegRowsKeepDrinks /\ DOMAIN keg' = Kegs
        /\ \A k \in Kegs : k # currentKeg[t] => keg'[k] = keg[k]
    BY <2>1 DEF KegRowsBecome, RowsWithEnded, KegRowsKeepDrinks
  <2> QED
    BY <2>2, <2>3, KegRowRequest
<1> QED
  BY <1>2, <1>3

LEMMA TapKegRequestsKeep ==
  ASSUME KegbotInv, NEW t \in Taps, NEW k \in Kegs, ChangeKeg(t, k) \/ AttachKeg(t, k)
  PROVE  DrinkInv' /\ DrinksComeFromTappedKegs'
<1>1. DOMAIN keg = Kegs /\ status \in [Kegs -> Room!Status]
  BY DEF KegbotInv, DrinkInv, LedgerShape, P!RoomInv, P!RoomTypeOK, P!Status, Room!Status
<1>2. CASE ChangeKeg(t, k)
  <2> DEFINE st == [x \in Kegs |-> IF x = k THEN "on_tap"
                                   ELSE IF x = currentKeg[t] THEN "finished"
                                   ELSE status[x]]
  <2>1. Room!SaveKegs(st, {currentKeg[t], k})
    BY <1>2 DEF ChangeKeg, Room!ChangeKegRequest, Room!ChangeKeg
  <2>2. status' = st /\ RowsStay
    BY <2>1, SaveKegsStays DEF KegbotInv
  <2>3. PICK full \in FullVolumes :
          KegRowsBecome([RowsWithEnded(t) EXCEPT ![k] = AttachedRow(NewKeg(full))])
    BY <1>2 DEF ChangeKeg
  <2>4. /\ KegRowsKeepDrinks /\ DOMAIN keg' = Kegs
        /\ \A x \in Kegs : x # k /\ x # currentKeg[t] => keg'[x] = keg[x]
    BY <2>3 DEF KegRowsBecome, RowsWithEnded, KegRowsKeepDrinks
  <2> QED
    BY <2>2, <2>4, KegRowRequest
<1>3. CASE AttachKeg(t, k)
  <2> DEFINE st == [status EXCEPT ![k] = "on_tap"]
  <2>1. Room!SaveKegs(st, {k}) /\ KegRowsBecome([keg EXCEPT ![k] = AttachedRow(keg[k])])
    BY <1>3 DEF AttachKeg, Room!AttachKeg
  <2>2. \A x \in Kegs : st[x] = "absent" => status[x] = "absent"
    BY <1>1
  <2>3. status' = st /\ RowsStay
    BY <2>1, <2>2, SaveKegsStays DEF KegbotInv
  <2>4. /\ KegRowsKeepDrinks /\ DOMAIN keg' = Kegs
        /\ \A x \in Kegs \ {k} : keg'[x] = keg[x]
    BY <1>1, <2>1 DEF KegRowsBecome, KegRowsKeepDrinks
  <2> QED
    BY <1>1, <2>3, <2>4, KegRowRequest
<1> QED
  BY <1>2, <1>3

LEMMA KegRequestsKeep ==
  ASSUME KegbotInv, NEW k \in Kegs, AddKeg(k) \/ EndKeg(k) \/ ReactivateKeg(k)
  PROVE  DrinkInv' /\ DrinksComeFromTappedKegs'
<1>1. DOMAIN keg = Kegs /\ status \in [Kegs -> Room!Status]
  BY DEF KegbotInv, DrinkInv, LedgerShape, P!RoomInv, P!RoomTypeOK, P!Status, Room!Status
<1>2. PICK s \in {"available", "finished"}, changed \in SUBSET Kegs :
        Room!SaveKegs([status EXCEPT ![k] = s], changed)
  BY DEF AddKeg, EndKeg, ReactivateKeg, Room!AddKeg, Room!EndKeg, Room!ReactivateKeg
<1>3. status' = [status EXCEPT ![k] = s] /\ RowsStay
  <2> DEFINE st == [status EXCEPT ![k] = s]
  <2>1. \A x \in Kegs : st[x] = "absent" => status[x] = "absent"
    BY <1>1
  <2> QED
    BY <1>2, <2>1, SaveKegsStays DEF KegbotInv
<1>4. \E row : KegRowsBecome([keg EXCEPT ![k] = row])
  BY DEF AddKeg, EndKeg, ReactivateKeg
<1>5. /\ KegRowsKeepDrinks /\ DOMAIN keg' = Kegs
      /\ \A x \in Kegs \ {k} : keg'[x] = keg[x]
  BY <1>1, <1>4 DEF KegRowsBecome, KegRowsKeepDrinks
<1> QED
  BY <1>1, <1>3, <1>5, KegRowRequest

LEMMA CancelKegKeeps ==
  ASSUME KegbotInv, NEW k \in Kegs, CancelKeg(k)
  PROVE  DrinkInv' /\ DrinksComeFromTappedKegs'
<1>1. /\ DrinkInv' /\ OnlyAbout(k) /\ keg'[k] = EmptyKeg
      /\ DrinksOfKeg(drink', k) = {} /\ \A e \in events' : e.keg # k
  BY EraseKegKeeps DEF CancelKeg, KegbotInv
<1>2. \A x \in Kegs \ {k} : status'[x] = status[x] /\ kegEvents'[x] = kegEvents[x]
  BY DEF CancelKeg, Room!CancelKeg, KegbotInv, P!RoomInv, P!RoomTypeOK
<1> QED
  BY <1>1, <1>2 DEF KegbotInv, OnlyAbout, DrinksComeFromTappedKegs

\* A keg with drinks was announced, and its row is there.
LEMMA KegsOfDrinks ==
  ASSUME KegbotInv, NEW d \in DOMAIN drink
  PROVE  /\ drink[d].keg \in Kegs
         /\ status[drink[d].keg] # "absent" /\ kegEvents[drink[d].keg].tapped = 1
<1>1. drink[d].keg \in Kegs /\ d \in DrinksOfKeg(drink, drink[d].keg)
  BY DEF KegbotInv, DrinkInv, LedgerShape, DrinkRow, DrinksOfKeg
<1> QED
  BY <1>1 DEF KegbotInv, DrinksComeFromTappedKegs

LEMMA DrinkRequestsKeep ==
  ASSUME KegbotInv,
         \/ \E t \in Taps, u \in Users, v \in Volumes, time \in Time : Pour(t, u, v, time)
         \/ \E d \in DOMAIN drink : EditDrink(d)
  PROVE  DrinkInv' /\ DrinksComeFromTappedKegs'
<1>1. ASSUME NEW t \in Taps, NEW u \in Users, NEW v \in Volumes, NEW time \in Time,
             Pour(t, u, v, time)
      PROVE  DrinkInv' /\ DrinksComeFromTappedKegs'
  <2> DEFINE k == currentKeg[t]
  <2>1. k \in Kegs /\ status[k] = "on_tap" /\ kegEvents[k].tapped = 1
    BY <1>1 DEF Pour, Room!IsActive, KegbotInv, P!RoomInv, P!RoomTypeOK, P!TappedKegIsOnTap,
                P!IsActive, P!LifeIsLoggedOnce
  <2>2. UNCHANGED roomVars
    BY <1>1, PourLeavesRoom DEF Pour, KegbotInv
  <2>3. DrinkInv' /\ OnlyAbout(k)
    BY <1>1, <2>1, RecordDrinkKeeps DEF Pour, KegbotInv
  <2> QED
    BY <2>1, <2>2, <2>3, DrinkRequest DEF roomVars, RowsStay
<1>2. ASSUME NEW d \in DOMAIN drink, EditDrink(d)
      PROVE  DrinkInv' /\ DrinksComeFromTappedKegs'
  <2>1. DrinkInv' /\ OnlyAbout(drink[d].keg)
    BY <1>2, CancelDrinkKeeps, ReassignKeeps, SetVolumeKeeps DEF EditDrink, KegbotInv
  <2> QED
    BY <1>2, <2>1, KegsOfDrinks, DrinkRequest DEF EditDrink, roomVars, RowsStay
<1> QED
  BY <1>1, <1>2

LEMMA VolumeRequestsKeep ==
  ASSUME KegbotInv,
         \/ \E t \in Taps, v \in Volumes : Spill(t, v)
         \/ \E k \in Kegs, full \in FullVolumes, spilled \in 0 .. MaxSpilled :
              EditKeg(k, full, spilled)
  PROVE  DrinkInv' /\ DrinksComeFromTappedKegs'
<1>1. PICK k \in Kegs :
        /\ status[k] # "absent" /\ UNCHANGED roomVars
        /\ \E row : keg' = [keg EXCEPT ![k] = row]
        /\ KegRowsKeepDrinks
  <2>1. ASSUME NEW t \in Taps, NEW v \in Volumes, Spill(t, v)
        PROVE  /\ currentKeg[t] \in Kegs
               /\ status[currentKeg[t]] # "absent" /\ UNCHANGED roomVars
               /\ keg' = [keg EXCEPT ![currentKeg[t]].spilled = @ + v]
               /\ KegRowsKeepDrinks
    BY <2>1 DEF Spill, RecordSpill, KegRowsKeepDrinks, Room!IsActive, KegbotInv, P!RoomInv,
                P!RoomTypeOK, P!TappedKegIsOnTap, P!IsActive
  <2>2. ASSUME NEW k \in Kegs, NEW full \in FullVolumes, NEW spilled \in 0 .. MaxSpilled,
               EditKeg(k, full, spilled)
        PROVE  /\ status[k] # "absent" /\ UNCHANGED roomVars
               /\ \E row : keg' = [keg EXCEPT ![k] = row]
               /\ KegRowsKeepDrinks
    BY <2>2 DEF EditKeg, KegRowsBecome, KegRowsKeepDrinks
  <2> QED
    BY <2>1, <2>2
<1>2. RowsStay
  BY <1>1 DEF roomVars, RowsStay
<1>3. /\ DOMAIN keg' = Kegs
      /\ \A x \in Kegs : status'[x] = "absent" => keg'[x] = keg[x]
  BY <1>1 DEF KegbotInv, DrinkInv, LedgerShape, roomVars
<1> QED
  BY <1>1, <1>2, <1>3, KegRowRequest

-----------------------------------------------------------------------------

LEMMA KegbotInitInv == Init => KegbotInv
<1> SUFFICES ASSUME Init
             PROVE  KegbotInv
  OBVIOUS
<1>1. P!RoomInv
  BY RoomInitHolds
<1>2. /\ keg = [k \in Kegs |-> EmptyKeg] /\ DOMAIN drink = {} /\ DOMAIN session = {}
      /\ events = {} /\ lastDrink = 0
  BY DEF Init, LedgerInit
<1>3. DrinkInv
  BY <1>2, LedgerAssumption DEF DrinkInv, LedgerShape, EventsAgreeWithDrinks
<1>4. DrinksComeFromTappedKegs
  BY <1>2 DEF DrinksComeFromTappedKegs, DrinksOfKeg
<1> QED
  BY <1>1, <1>3, <1>4 DEF KegbotInv

LEMMA KegbotNextInv == KegbotInv /\ [Next]_vars => KegbotInv'
<1> SUFFICES ASSUME KegbotInv, [Next]_vars
             PROVE  KegbotInv'
  OBVIOUS
<1>1. P!RoomInv'
  BY RoomInvIsKept DEF KegbotInv
<1>2. CASE Tick \/ UNCHANGED vars
  <2>1. UNCHANGED <<keg, drink, session, events, lastDrink, roomVars>>
    BY <1>2 DEF Tick, vars, ledgerVars
  <2> QED
    BY <1>1, <2>1 DEF KegbotInv, DrinkInv, LedgerShape, EventsAgreeWithDrinks,
                      DrinksComeFromTappedKegs, DrinksOfKeg, roomVars
<1>3. CASE Next /\ ~Tick
  <2>1. DrinkInv' /\ DrinksComeFromTappedKegs'
    BY <1>3, TapRequestsKeep, TapKegRequestsKeep, KegRequestsKeep, CancelKegKeeps,
       DrinkRequestsKeep, VolumeRequestsKeep DEF Next
  <2> QED
    BY <1>1, <2>1 DEF KegbotInv
<1> QED
  BY <1>2, <1>3

\* The invariant of the core holds throughout.
THEOREM KegbotInvariance == Spec => []KegbotInv
BY KegbotInitInv, KegbotNextInv, PTL DEF Spec

\* Every drink has its event, no event outlives its drink, each names the drink's
\* present owner and session, and a session starts at most once.
THEOREM EventsAlwaysAgree == Spec => []EventsAgreeWithDrinks
<1>1. KegbotInv => EventsAgreeWithDrinks
  BY DEF KegbotInv, DrinkInv
<1> QED
  BY <1>1, KegbotInvariance, PTL

\* A keg with drinks was announced as tapped, and a deleted one has left nothing.
THEOREM DrinksAlwaysComeFromTappedKegs == Spec => []DrinksComeFromTappedKegs
<1>1. KegbotInv => DrinksComeFromTappedKegs
  BY DEF KegbotInv
<1> QED
  BY <1>1, KegbotInvariance, PTL

-----------------------------------------------------------------------------
(* Keg rows and the times of their drinks *)

\* The statuses of a keg that is off its tap.
Offline == {"available", "finished"}

\* The times of the row cover the drinks D of keg k.
Spans(row, D, k) ==
  \A d \in DOMAIN D : D[d].keg = k => row.start <= D[d].time /\ D[d].time <= row.end

\* What of a keg's row comparing times needs; its volumes do not matter.
RowShape(row) ==
  /\ DOMAIN row = {"served", "spilled", "full", "start", "end"}
  /\ row.start \in Nat /\ row.end \in Nat

\* OfflineKegSpansItsDrinks, with what makes it inductive.
TimesInv ==
  /\ now \in Nat
  /\ \A k \in Kegs : RowShape(keg[k])
  /\ \A k \in Kegs : status[k] \in Offline => Spans(keg[k], drink, k)

\* _keg_pre_save widens a row to its drinks.
LEMMA PreSaveSpans ==
  ASSUME LedgerShape, NEW k \in Kegs, NEW row, RowShape(row)
  PROVE  RowShape(PreSave(row, drink, k)) /\ Spans(PreSave(row, drink, k), drink, k)
<1> DEFINE times == TimesOf(drink, DrinksOfKeg(drink, k))
           starts == {row.start} \cup times
           ends == {row.end} \cup times
           bound == MaxTime + row.end
<1>1. row.start \in Nat /\ row.end \in Nat /\ MaxTime \in Nat
  BY LedgerAssumption DEF RowShape
<1>2. \A x \in times : x \in 0 .. MaxTime
  BY DEF TimesOf, DrinksOfKeg, LedgerShape, DrinkRow, Time
<1>3. starts \in SUBSET Nat /\ starts # {} /\ ends \in SUBSET Nat /\ ends # {}
  BY <1>1, <1>2
<1>4. bound \in Nat /\ \A x \in ends : x <= bound
  BY <1>1, <1>2
<1>5. PreSave(row, drink, k) = [row EXCEPT !.start = Min(starts), !.end = Max(ends)]
  BY DEF PreSave
<1>6. \A d \in DOMAIN drink : drink[d].keg = k => drink[d].time \in times
  BY DEF TimesOf, DrinksOfKeg
<1> HIDE DEF times, bound
<1>7. /\ Min(starts) \in starts /\ \A x \in starts : Min(starts) <= x
      /\ Max(ends) \in ends /\ \A x \in ends : x <= Max(ends)
  BY <1>3, <1>4, MinFacts, MaxFacts
<1>8. Min(starts) \in Nat /\ Max(ends) \in Nat
  BY <1>3, <1>7
<1> DEFINE saved == PreSave(row, drink, k)
<1>9. DOMAIN saved = DOMAIN row /\ saved.start = Min(starts) /\ saved.end = Max(ends)
  BY <1>5 DEF RowShape
<1>10. RowShape(saved)
  BY <1>8, <1>9 DEF RowShape
<1>11. Spans(saved, drink, k)
  BY <1>6, <1>7, <1>9 DEF Spans
<1> QED
  BY <1>10, <1>11

\* The times of keg k and of its drinks are what they were; some drinks may have gone.
TimesStay(k) ==
  /\ RowShape(keg'[k])
  /\ keg'[k].start = keg[k].start /\ keg'[k].end = keg[k].end
  /\ \A d \in DOMAIN drink' : drink'[d].keg = k =>
       d \in DOMAIN drink /\ drink[d].keg = k /\ drink'[d].time = drink[d].time

\* What a request must see to, keg by keg.
LEMMA SpansStay ==
  ASSUME TimesInv, now' \in Nat,
         \A k \in Kegs :
           /\ RowShape(keg'[k])
           /\ \/ status'[k] \notin Offline
              \/ Spans(keg'[k], drink', k)
              \/ TimesStay(k) /\ status'[k] = status[k]
  PROVE  TimesInv'
<1>1. ASSUME NEW k \in Kegs, TimesStay(k), status'[k] = status[k], status'[k] \in Offline
      PROVE  Spans(keg'[k], drink', k)
  BY <1>1 DEF TimesInv, TimesStay, Spans
<1> QED
  BY <1>1 DEF TimesInv

\* The row of a keg that is ended is saved through PreSave.
LEMMA EndedSpans ==
  ASSUME LedgerShape, TimesInv, NEW k \in Kegs
  PROVE  RowShape(EndedRow(k)) /\ Spans(EndedRow(k), drink, k)
<1> DEFINE row == [keg[k] EXCEPT !.end = now]
<1>1. RowShape(row)
  BY DEF TimesInv, RowShape
<1> HIDE DEF row
<1>2. EndedRow(k) = PreSave(row, drink, k)
  BY DEF EndedRow, row
<1> QED
  BY <1>1, <1>2, PreSaveSpans

LEMMA RowStays ==
  ASSUME TimesInv, NEW k \in Kegs, keg'[k] = keg[k], drink' = drink
  PROVE  TimesStay(k)
BY DEF TimesStay, TimesInv

\* The tap's keg, if any, is ended; keg k, if any, goes on a tap.
LEMMA TapRequestsKeepTimes ==
  ASSUME KegbotInv, TimesInv, NEW t \in Taps,
         \/ AddTap(t) \/ ApiDeleteTap(t) \/ AdminDeleteTap(t) \/ EndTapKeg(t)
         \/ \E k \in Kegs : ChangeKeg(t, k) \/ AttachKeg(t, k)
  PROVE  TimesInv'
<1>1. LedgerShape /\ DOMAIN keg = Kegs /\ now \in Nat /\ status \in [Kegs -> Room!Status]
  BY DEF KegbotInv, DrinkInv, LedgerShape, TimesInv, P!RoomInv, P!RoomTypeOK, P!Status, Room!Status
<1>2. CASE AddTap(t) \/ ApiDeleteTap(t)
  <2>1. UNCHANGED <<now, keg, drink, status>>
    BY <1>2 DEF AddTap, ApiDeleteTap, Room!AddTap, Room!ApiDeleteTap, ledgerVars
  <2> QED
    BY <2>1 DEF TimesInv
<1>3. CASE AdminDeleteTap(t) \/ EndTapKeg(t)
  <2>1. /\ status' = [k \in Kegs |-> IF k = currentKeg[t] THEN "finished" ELSE status[k]]
        /\ KegRowsBecome(RowsWithEnded(t))
    BY <1>3 DEF AdminDeleteTap, EndTapKeg, Room!AdminDeleteTap, Room!EndTapKeg,
                Room!EndCurrentKeg, Room!SaveKegs
  <2>2. /\ UNCHANGED <<now, drink>>
        /\ \A k \in Kegs : keg'[k] = IF k = currentKeg[t] THEN EndedRow(k) ELSE keg[k]
    BY <2>1 DEF KegRowsBecome, RowsWithEnded
  <2>3. ASSUME NEW k \in Kegs
        PROVE  /\ RowShape(keg'[k])
               /\ Spans(keg'[k], drink', k) \/ (TimesStay(k) /\ status'[k] = status[k])
    <3>1. CASE k = currentKeg[t]
      BY <1>1, <2>2, <3>1, EndedSpans
    <3>2. CASE k # currentKeg[t]
      BY <2>1, <2>2, <3>2, RowStays DEF TimesStay
    <3> QED
      BY <3>1, <3>2
  <2> QED
    BY <1>1, <2>2, <2>3, SpansStay
<1>4. ASSUME NEW k \in Kegs, ChangeKeg(t, k) PROVE TimesInv'
  <2>1. status' = [x \in Kegs |-> IF x = k THEN "on_tap"
                                  ELSE IF x = currentKeg[t] THEN "finished"
                                  ELSE status[x]]
    BY <1>4 DEF ChangeKeg, Room!ChangeKegRequest, Room!ChangeKeg, Room!SaveKegs
  <2>2. PICK full \in FullVolumes :
          KegRowsBecome([RowsWithEnded(t) EXCEPT ![k] = AttachedRow(NewKeg(full))])
    BY <1>4 DEF ChangeKeg
  <2>3. /\ UNCHANGED <<now, drink>>
        /\ keg'[k] = AttachedRow(NewKeg(full))
        /\ \A x \in Kegs \ {k} : keg'[x] = IF x = currentKeg[t] THEN EndedRow(x) ELSE keg[x]
    BY <2>2 DEF KegRowsBecome, RowsWithEnded
  <2>4. RowShape(keg'[k])
    BY <1>1, <2>3 DEF AttachedRow, NewKeg, RowShape
  <2>5. ASSUME NEW x \in Kegs \ {k}
        PROVE  /\ RowShape(keg'[x])
               /\ Spans(keg'[x], drink', x) \/ (TimesStay(x) /\ status'[x] = status[x])
    <3>1. CASE x = currentKeg[t]
      BY <1>1, <2>3, <3>1, EndedSpans
    <3>2. CASE x # currentKeg[t]
      BY <2>1, <2>3, <3>2, RowStays DEF TimesStay
    <3> QED
      BY <3>1, <3>2
  <2>6. status'[k] \notin Offline
    BY <2>1 DEF Offline
  <2> QED
    BY <1>1, <2>3, <2>4, <2>5, <2>6, SpansStay
<1>5. ASSUME NEW k \in Kegs, AttachKeg(t, k) PROVE TimesInv'
  <2>1. /\ status' = [status EXCEPT ![k] = "on_tap"]
        /\ UNCHANGED <<now, drink>>
        /\ keg' = [keg EXCEPT ![k] = AttachedRow(keg[k])]
    BY <1>5 DEF AttachKeg, Room!AttachKeg, Room!SaveKegs, KegRowsBecome
  <2>2. RowShape(keg'[k]) /\ status'[k] \notin Offline
    BY <1>1, <2>1 DEF AttachedRow, RowShape, Offline, TimesInv
  <2>3. \A x \in Kegs \ {k} : TimesStay(x) /\ status'[x] = status[x]
    BY <1>1, <2>1, RowStays
  <2> QED
    BY <1>1, <2>1, <2>2, <2>3, SpansStay DEF TimesStay
<1> QED
  BY <1>2, <1>3, <1>4, <1>5

LEMMA KegRequestsKeepTimes ==
  ASSUME KegbotInv, TimesInv, NEW k \in Kegs,
         AddKeg(k) \/ EndKeg(k) \/ ReactivateKeg(k)
         \/ (\E full \in FullVolumes, spilled \in 0 .. MaxSpilled : EditKeg(k, full, spilled))
  PROVE  TimesInv'
<1>1. LedgerShape /\ DOMAIN keg = Kegs /\ now \in Nat /\ status \in [Kegs -> Room!Status]
  BY DEF KegbotInv, DrinkInv, LedgerShape, TimesInv, P!RoomInv, P!RoomTypeOK, P!Status, Room!Status
\* All of them save keg k, and none of them another.
<1>2. /\ UNCHANGED <<now, drink>>
      /\ \A x \in Kegs \ {k} : keg'[x] = keg[x] /\ status'[x] = status[x]
  <2>1. /\ UNCHANGED <<now, drink>>
        /\ \E row : keg' = [keg EXCEPT ![k] = row]
    BY DEF AddKeg, EndKeg, ReactivateKeg, EditKeg, KegRowsBecome
  <2>2. \A x \in Kegs \ {k} : status'[x] = status[x]
    BY <1>1 DEF AddKeg, EndKeg, ReactivateKeg, EditKeg, Room!AddKeg, Room!EndKeg,
                Room!ReactivateKeg, Room!SaveKegs, roomVars
  <2> QED
    BY <1>1, <2>1, <2>2
<1>3. \A x \in Kegs \ {k} : TimesStay(x) /\ status'[x] = status[x]
  BY <1>2, RowStays
<1>4. RowShape(keg'[k]) /\ (status'[k] \notin Offline \/ Spans(keg'[k], drink', k))
  <2>1. CASE AddKeg(k)
    <3>1. PICK full \in FullVolumes : keg'[k] = NewKeg(full)
      BY <1>1, <2>1 DEF AddKeg, KegRowsBecome
    <3>2. DrinksOfKeg(drink, k) = {}
      BY <2>1 DEF AddKeg, Room!AddKeg, KegbotInv, DrinksComeFromTappedKegs
    <3>3. Spans(keg'[k], drink', k)
      BY <1>2, <3>2 DEF Spans, DrinksOfKeg
    <3> QED
      BY <1>1, <3>1, <3>3 DEF NewKeg, RowShape
  <2>2. CASE EndKeg(k)
    <3>1. keg'[k] = EndedRow(k)
      BY <1>1, <2>2 DEF EndKeg, KegRowsBecome
    <3> QED
      BY <1>1, <1>2, <3>1, EndedSpans
  <2>3. CASE ReactivateKeg(k)
    <3>1. keg'[k] = PreSave(keg[k], drink, k)
      BY <1>1, <2>3 DEF ReactivateKeg, KegRowsBecome
    <3> QED
      BY <1>1, <1>2, <3>1, PreSaveSpans DEF TimesInv
  <2>4. ASSUME NEW full \in FullVolumes, NEW spilled \in 0 .. MaxSpilled, EditKeg(k, full, spilled)
        PROVE  RowShape(keg'[k]) /\ (status'[k] \notin Offline \/ Spans(keg'[k], drink', k))
    <3> DEFINE row == [keg[k] EXCEPT !.full = full, !.spilled = spilled]
    <3>1. RowShape(row)
      BY DEF TimesInv, RowShape
    <3>2. /\ keg'[k] = IF status[k] = "on_tap" THEN row ELSE PreSave(row, drink, k)
          /\ status' = status
      BY <1>1, <2>4 DEF EditKeg, KegRowsBecome, roomVars
    <3> HIDE DEF row
    <3> QED
      BY <1>1, <1>2, <3>1, <3>2, PreSaveSpans DEF Offline
  <2> QED
    BY <2>1, <2>2, <2>3, <2>4
<1> QED
  BY <1>1, <1>2, <1>3, <1>4, SpansStay DEF TimesStay

\* A deleted keg leaves no drinks.
LEMMA CancelKegKeepsTimes ==
  ASSUME KegbotInv, TimesInv, NEW k \in Kegs, CancelKeg(k)
  PROVE  TimesInv'
<1>1. /\ DOMAIN keg = Kegs /\ now \in Nat /\ status \in [Kegs -> Room!Status]
      /\ UNCHANGED now
  BY DEF KegbotInv, DrinkInv, LedgerShape, TimesInv, P!RoomInv, P!RoomTypeOK, P!Status, Room!Status,
         CancelKeg, EraseKeg
<1>2. /\ keg' = [keg EXCEPT ![k] = EmptyKeg]
      /\ drink' = Without(drink, DrinksOfKeg(drink, k))
      /\ status' = [status EXCEPT ![k] = "absent"]
  BY DEF CancelKeg, EraseKeg, Room!CancelKeg
<1>3. RowShape(keg'[k]) /\ status'[k] \notin Offline
  BY <1>1, <1>2 DEF EmptyKeg, RowShape, Offline
<1>4. ASSUME NEW x \in Kegs \ {k} PROVE TimesStay(x) /\ status'[x] = status[x]
  BY <1>1, <1>2 DEF TimesStay, TimesInv, Without
<1> QED
  BY <1>1, <1>3, <1>4, SpansStay DEF TimesStay

\* Pours and spills are on kegs on tap; changes of drinks move no times.
LEMMA VolumesKeepTimes ==
  ASSUME KegbotInv, TimesInv,
         \/ \E t \in Taps, u \in Users, v \in Volumes, time \in Time : Pour(t, u, v, time)
         \/ \E t \in Taps, v \in Volumes : Spill(t, v)
         \/ \E d \in DOMAIN drink : EditDrink(d)
  PROVE  TimesInv'
<1>1. LedgerShape /\ DOMAIN keg = Kegs /\ now \in Nat
  BY DEF KegbotInv, DrinkInv, LedgerShape, TimesInv
<1>2. ASSUME NEW t \in Taps, NEW u \in Users, NEW v \in Volumes, NEW time \in Time,
             Pour(t, u, v, time)
      PROVE  TimesInv'
  <2> DEFINE k == currentKeg[t]
             d == lastDrink + 1
  <2>1. k \in Kegs /\ status[k] = "on_tap"
    BY <1>2 DEF Pour, Room!IsActive, KegbotInv, P!RoomInv, P!RoomTypeOK, P!TappedKegIsOnTap,
                P!IsActive
  <2>2. UNCHANGED <<status, now>>
    BY <1>2 DEF Pour, Room!SaveKegs, RecordDrink
  <2>3. keg' = [keg EXCEPT ![k] = [keg[k] EXCEPT !.served = @ + v]]
    BY <1>2 DEF Pour, RecordDrink
  <2>4. /\ DOMAIN drink' = DOMAIN drink \cup {d}
        /\ drink'[d].keg = k
        /\ \A x \in DOMAIN drink : drink'[x] = drink[x]
    <3>1. d \notin DOMAIN drink
      BY <1>1, LedgerAssumption DEF LedgerShape
    <3> QED
      BY <1>2, <3>1 DEF Pour, RecordDrink
  <2> HIDE DEF d, k
  <2>5. RowShape(keg'[k]) /\ status'[k] \notin Offline
    BY <1>1, <2>1, <2>2, <2>3 DEF TimesInv, RowShape, Offline
  <2>6. ASSUME NEW x \in Kegs \ {k} PROVE TimesStay(x) /\ status'[x] = status[x]
    BY <1>1, <2>2, <2>3, <2>4 DEF TimesStay, TimesInv
  <2> QED
    BY <1>1, <2>2, <2>5, <2>6, SpansStay DEF TimesStay
<1>3. ASSUME NEW t \in Taps, NEW v \in Volumes, Spill(t, v) PROVE TimesInv'
  <2>1. /\ UNCHANGED <<now, drink, status>>
        /\ keg' = [keg EXCEPT ![currentKeg[t]].spilled = @ + v]
    BY <1>3 DEF Spill, RecordSpill, roomVars
  <2>2. ASSUME NEW x \in Kegs PROVE TimesStay(x) /\ status'[x] = status[x]
    BY <1>1, <2>1 DEF TimesStay, TimesInv, RowShape
  <2> QED
    BY <1>1, <2>1, <2>2, SpansStay DEF TimesStay
<1>4. ASSUME NEW d \in DOMAIN drink, EditDrink(d) PROVE TimesInv'
  <2>1. UNCHANGED <<now, status>>
    BY <1>4 DEF EditDrink, CancelDrink, Reassign, SetVolume, roomVars
  <2>2. /\ DOMAIN keg' = Kegs
        /\ \A x \in Kegs : /\ DOMAIN keg'[x] = DOMAIN keg[x]
                           /\ keg'[x].start = keg[x].start /\ keg'[x].end = keg[x].end
    <3>1. CASE \E spilled \in BOOLEAN : CancelDrink(d, spilled)
      BY <1>1, <3>1 DEF CancelDrink, TimesInv, RowShape
    <3>2. CASE \E u \in Users : Reassign(d, u)
      BY <1>1, <3>2 DEF Reassign
    <3>3. CASE \E v \in Volumes : SetVolume(d, v)
      BY <1>1, <3>3 DEF SetVolume, TimesInv, RowShape
    <3> QED
      BY <1>4, <3>1, <3>2, <3>3 DEF EditDrink
  <2>3. \A x \in DOMAIN drink' : x \in DOMAIN drink /\ drink'[x].keg = drink[x].keg
                                 /\ drink'[x].time = drink[x].time
    <3>1. CASE \E spilled \in BOOLEAN : CancelDrink(d, spilled)
      BY <3>1 DEF CancelDrink, Without
    <3>2. CASE \E u \in Users : Reassign(d, u)
      BY <1>1, <3>2 DEF Reassign, LedgerShape, DrinkRow
    <3>3. CASE \E v \in Volumes : SetVolume(d, v)
      BY <1>1, <3>3 DEF SetVolume, LedgerShape, DrinkRow
    <3> QED
      BY <1>4, <3>1, <3>2, <3>3 DEF EditDrink
  <2>4. ASSUME NEW x \in Kegs PROVE TimesStay(x) /\ status'[x] = status[x]
    BY <2>1, <2>2, <2>3 DEF TimesStay, TimesInv, RowShape
  <2> QED
    BY <1>1, <2>1, <2>4, SpansStay DEF TimesStay
<1> QED
  BY <1>2, <1>3, <1>4

LEMMA TimesInit == Init => TimesInv
<1> SUFFICES ASSUME Init PROVE TimesInv
  OBVIOUS
<1>1. now = 0 /\ keg = [k \in Kegs |-> EmptyKeg] /\ DOMAIN drink = {}
  BY DEF Init, LedgerInit
<1> QED
  BY <1>1 DEF TimesInv, RowShape, EmptyKeg, Spans

LEMMA TimesNext == KegbotInv /\ TimesInv /\ [Next]_vars => TimesInv'
<1> SUFFICES ASSUME KegbotInv, TimesInv, [Next]_vars PROVE TimesInv'
  OBVIOUS
<1>1. CASE Tick \/ UNCHANGED vars
  <2>1. UNCHANGED <<keg, drink, status>> /\ now' \in Nat
    BY <1>1 DEF Tick, vars, ledgerVars, roomVars, TimesInv
  <2> QED
    BY <2>1 DEF TimesInv
<1>2. CASE Next /\ ~Tick
  BY <1>2, TapRequestsKeepTimes, KegRequestsKeepTimes, CancelKegKeepsTimes, VolumesKeepTimes
     DEF Next
<1> QED
  BY <1>1, <1>2

\* _keg_pre_save: through backdated pours, reactivations and edits, a keg that is not on
\* tap, and was once, covers all of its drinks with its start and end times.
THEOREM OfflineKegsSpanTheirDrinks == Spec => []OfflineKegSpansItsDrinks
<1>1. TimesInv => OfflineKegSpansItsDrinks
  BY DEF TimesInv, Spans, Offline, OfflineKegSpansItsDrinks, DrinksOfKeg
<1> QED
  BY <1>1, TimesInit, TimesNext, KegbotInvariance, PTL DEF Spec

-----------------------------------------------------------------------------
(* Totals: what kegs and sessions have counted is what their drinks add up to *)

\* ServedIsSumOfDrinks and SessionsMatchDrinks, with what makes them inductive.
TotalsInv ==
  /\ now \in Time
  /\ keg \in [Kegs -> KegRow]
  /\ DOMAIN session \subseteq 1 .. lastDrink
  /\ ServedIsSumOfDrinks
  /\ SessionsMatchDrinks

\* The tables are finite, whatever the bounds, because drinks are numbered.
LEMMA DrinksAreFinite ==
  ASSUME LedgerShape
  PROVE  /\ IsFiniteSet(DOMAIN drink)
         /\ \A ds \in SUBSET DOMAIN drink : IsFiniteSet(ds)
         /\ \A d \in DOMAIN drink : drink[d].volume \in Nat /\ drink[d].time \in 0 .. MaxTime
<1>1. lastDrink \in Int /\ DOMAIN drink \subseteq 1 .. lastDrink
  BY LedgerAssumption DEF LedgerShape
<1>2. IsFiniteSet(DOMAIN drink)
  <2>1. IsFiniteSet(1 .. lastDrink)
    BY <1>1, FS_Interval
  <2> QED
    BY <1>1, <2>1, FS_Subset
<1> QED
  BY <1>2, FS_Subset, LedgerAssumption DEF LedgerShape, DrinkRow, Time

\* Least and greatest are what they are known by.
LEMMA MinIs ==
  ASSUME NEW S \in SUBSET Nat, NEW m \in S, \A x \in S : m <= x
  PROVE  Min(S) = m
<1>1. Min(S) \in S /\ Min(S) <= m
  BY MinFacts
<1>2. m <= Min(S) /\ Min(S) \in Nat /\ m \in Nat
  BY <1>1
<1> QED
  BY <1>1, <1>2

LEMMA MaxIs ==
  ASSUME NEW S \in SUBSET Nat, NEW m \in S, \A x \in S : x <= m
  PROVE  Max(S) = m
<1>1. m \in Nat
  OBVIOUS
<1>2. Max(S) \in S /\ m <= Max(S)
  BY <1>1, MaxFacts
<1>3. Max(S) <= m /\ Max(S) \in Nat
  BY <1>2
<1> QED
  BY <1>1, <1>2, <1>3

\* The times of some drinks have a least and a greatest.
LEMMA TimesFacts ==
  ASSUME LedgerShape, NEW ds \in SUBSET DOMAIN drink, ds # {}
  PROVE  LET times == TimesOf(drink, ds)
         IN  /\ times \in SUBSET Nat /\ times # {}
             /\ Min(times) \in times /\ \A x \in times : Min(times) <= x
             /\ Max(times) \in times /\ \A x \in times : x <= Max(times)
<1> DEFINE times == TimesOf(drink, ds)
<1>1. times \in SUBSET (0 .. MaxTime) /\ MaxTime \in Nat
  BY DrinksAreFinite, LedgerAssumption DEF TimesOf
<1>2. times # {}
  BY DEF TimesOf
<1> HIDE DEF times
<1>3. times \in SUBSET Nat /\ \A x \in times : x <= MaxTime
  BY <1>1
<1>4. /\ Min(times) \in times /\ \A x \in times : Min(times) <= x
      /\ Max(times) \in times /\ \A x \in times : x <= Max(times)
  BY <1>1, <1>2, <1>3, MinFacts, MaxFacts
<1> QED
  BY <1>2, <1>3, <1>4 DEF times

\* The same drinks make the same row.
LEMMA SameSession ==
  ASSUME NEW D, NEW E, NEW ds, IsFiniteSet(ds),
         \A d \in ds : D[d].time = E[d].time /\ D[d].volume = E[d].volume,
         NEW row, MadeOf(row, D, ds)
  PROVE  MadeOf(row, E, ds)
<1>1. TimesOf(D, ds) = TimesOf(E, ds)
  BY DEF TimesOf
<1>2. VolumeOf(D, ds) = VolumeOf(E, ds)
  BY SameVolume
<1> QED
  BY <1>1, <1>2 DEF MadeOf

\* The greater of two times is one of them.
LEMMA LaterOfTwo ==
  ASSUME NEW a \in Nat, NEW b \in Nat
  PROVE  /\ Max({a, b}) \in {a, b} /\ Max({a, b}) \in Nat
         /\ a <= Max({a, b}) /\ b <= Max({a, b})
<1>1. CASE a <= b
  <2>1. Max({a, b}) = b
    BY <1>1, MaxIs
  <2> QED
    BY <1>1, <2>1
<1>2. CASE b <= a
  <2>1. Max({a, b}) = a
    BY <1>2, MaxIs
  <2> QED
    BY <1>2, <2>1
<1> QED
  BY <1>1, <1>2

\* A pour's session grows by the drink: AddDrink computes from the row what Rebuild
\* would compute from the drinks.
LEMMA AddDrinkMatches ==
  ASSUME LedgerShape, NEW ds \in SUBSET DOMAIN drink, ds # {}, NEW E, NEW d, d \notin ds,
         \A x \in ds : E[x] = drink[x], E[d].time \in Nat, E[d].volume \in Nat,
         NEW row, MadeOf(row, drink, ds), NEW timeout \in Timeouts
  PROVE  MadeOf(AddDrink(row, E[d].volume, E[d].time, timeout), E, ds \cup {d})
<1> DEFINE t == E[d].time
           v == E[d].volume
           old == TimesOf(drink, ds)
           new == TimesOf(E, ds \cup {d})
           low == Min(old)
           end == Max({row.end, t + timeout})
<1>1. /\ old \in SUBSET Nat
      /\ low \in old /\ \A x \in old : low <= x
  BY TimesFacts
<1>2. new = old \cup {t}
  BY DEF TimesOf
<1>3. VolumeOf(E, ds \cup {d}) = VolumeOf(drink, ds) + v
  BY DrinksAreFinite, VolumeWith
<1>4. timeout \in Nat /\ t \in Nat
  BY LedgerAssumption
<1>5. row.end \in Nat
  <2>1. PICK x \in ds, to \in Timeouts : row.end = drink[x].time + to
    BY DEF MadeOf
  <2> QED
    BY <2>1, DrinksAreFinite, LedgerAssumption
<1>6. /\ end \in {row.end, t + timeout} /\ end \in Nat
      /\ row.end <= end /\ t + timeout <= end
  <2>1. t + timeout \in Nat
    BY <1>4
  <2> HIDE DEF t
  <2> QED
    BY <1>5, <2>1, LaterOfTwo
<1>7. /\ row.start = low /\ row.volume = VolumeOf(drink, ds)
      /\ AddDrink(row, v, t, timeout) = [start |-> Min({row.start, t}), end |-> end,
                                         volume |-> row.volume + v]
  <2>1. row = [start |-> Min(TimesOf(drink, ds)), end |-> row.end, volume |-> VolumeOf(drink, ds)]
    BY DEF MadeOf
  <2> DEFINE e == row.end
             w == VolumeOf(drink, ds)
  <2>2. row = [start |-> low, end |-> e, volume |-> w]
    BY <2>1
  <2>3. AddDrink(row, v, t, timeout) = [start |-> Min({row.start, t}), end |-> end,
                                         volume |-> row.volume + v]
    BY DEF AddDrink
  <2> HIDE DEF low, e, w
  <2>4. row.start = low /\ row.volume = w
    BY <2>2
  <2> QED
    BY <2>3, <2>4 DEF w
<1>8. \E x \in ds \cup {d}, to \in Timeouts : end = E[x].time + to
  <2>1. CASE end = row.end
    BY <2>1 DEF MadeOf
  <2>2. CASE end = t + timeout
    BY <2>2
  <2> HIDE DEF end
  <2> QED
    BY <1>6, <2>1, <2>2
<1>9. \A x \in ds \cup {d} : \E to \in Timeouts : end >= E[x].time + to
  <2>1. ASSUME NEW x \in ds PROVE \E to \in Timeouts : end >= E[x].time + to
    <3>1. PICK to \in Timeouts : row.end >= drink[x].time + to
      BY DEF MadeOf
    <3>2. drink[x].time \in Nat /\ to \in Nat /\ E[x].time = drink[x].time
      BY DrinksAreFinite, LedgerAssumption
    <3> HIDE DEF end
    <3>3. end >= E[x].time + to
      BY <1>5, <1>6, <3>1, <3>2
    <3> QED
      BY <3>3
  <2>2. end >= E[d].time + timeout
    BY <1>6, <1>4
  <2> QED
    BY <2>1, <2>2
<1> HIDE DEF t, v, old, new, low, end
<1>10. low \in Nat /\ new \in SUBSET Nat
  BY <1>1, <1>2, <1>4
<1>11. Min({low, t}) = Min(new)
  <2>1. CASE low <= t
    <3>1. Min({low, t}) = low
      BY <1>4, <1>10, <2>1, MinIs
    <3>2. Min(new) = low
      BY <1>1, <1>2, <1>10, <2>1, MinIs
    <3> QED
      BY <3>1, <3>2
  <2>2. CASE t <= low
    <3>1. Min({low, t}) = t
      BY <1>4, <1>10, <2>2, MinIs
    <3>2. t \in new /\ \A x \in new : t <= x
      BY <1>1, <1>2, <1>4, <1>10, <2>2
    <3>3. Min(new) = t
      BY <1>10, <3>2, MinIs
    <3> QED
      BY <3>1, <3>3
  <2> QED
    BY <1>4, <1>10, <2>1, <2>2
<1>12. AddDrink(row, v, t, timeout) = [start |-> Min(new), end |-> end,
                                       volume |-> VolumeOf(E, ds \cup {d})]
  BY <1>3, <1>7, <1>11
<1>13. AddDrink(row, v, t, timeout).end = end
  BY <1>12
<1> QED
  BY <1>8, <1>9, <1>12, <1>13 DEF MadeOf, t, v, new

\* A session that a pour opens.
LEMMA FirstDrinkMatches ==
  ASSUME NEW E, NEW d, E[d].time \in Nat, E[d].volume \in Nat, NEW timeout \in Timeouts
  PROVE  MadeOf(AddDrink([start |-> E[d].time, end |-> E[d].time, volume |-> 0],
                         E[d].volume, E[d].time, timeout), E, {d})
<1> DEFINE t == E[d].time
           row == AddDrink([start |-> t, end |-> t, volume |-> 0], E[d].volume, t, timeout)
<1>1. timeout \in Nat /\ t \in Nat
  BY LedgerAssumption
<1>2. TimesOf(E, {d}) = {t}
  BY DEF TimesOf
<1>3. Min({t, t}) = t /\ Min({t}) = t
  BY <1>1, MinIs
<1>4. Max({t, t + timeout}) = t + timeout
  BY <1>1, MaxIs
<1>5. VolumeOf(E, {d}) = E[d].volume
  <2>1. IsFiniteSet({d}) /\ {d} \ {d} = {}
    BY FS_Singleton
  <2> QED
    BY <2>1, VolumeOfOne, NoVolume
<1>6. row = [start |-> t, end |-> t + timeout, volume |-> E[d].volume]
  BY <1>1, <1>3, <1>4 DEF AddDrink
<1>7. row.end = E[d].time + timeout
  BY <1>6
<1> HIDE DEF row
<1>8. row = [start |-> Min(TimesOf(E, {d})), end |-> row.end, volume |-> VolumeOf(E, {d})]
  BY <1>2, <1>3, <1>5, <1>6, <1>7
<1>9. row.end >= E[d].time + timeout
  BY <1>1, <1>7
<1>10. MadeOf(row, E, {d})
  BY <1>7, <1>8, <1>9 DEF MadeOf
<1> QED
  BY <1>10 DEF row

\* What Rebuild makes of some drinks.
LEMMA RebuiltMatches ==
  ASSUME NEW D, NEW ds, ds # {}, \A d \in ds : D[d].time \in 0 .. MaxTime,
         NEW timeout \in Timeouts, NEW row,
         row = [start |-> Min(TimesOf(D, ds)), end |-> Max(TimesOf(D, ds)) + timeout,
                volume |-> VolumeOf(D, ds)]
  PROVE  MadeOf(row, D, ds)
<1> DEFINE times == TimesOf(D, ds)
           end == Max(times) + timeout
<1>1. /\ times \in SUBSET Nat /\ times # {} /\ MaxTime \in Nat
      /\ \A x \in times : x <= MaxTime
  BY LedgerAssumption DEF TimesOf
<1>2. Max(times) \in times /\ \A x \in times : x <= Max(times)
  <2> HIDE DEF times
  <2> QED
    BY <1>1, MaxFacts
<1>3. PICK d \in ds : Max(times) = D[d].time
  BY <1>2 DEF TimesOf
<1>4. timeout \in Nat /\ \A x \in ds : D[x].time \in times
  BY LedgerAssumption DEF TimesOf
<1>5. row.end = end
  OBVIOUS
<1> HIDE DEF times
<1>6. \A x \in ds : end >= D[x].time + timeout
  <2> SUFFICES ASSUME NEW x \in ds PROVE Max(times) + timeout >= D[x].time + timeout
    OBVIOUS
  <2>1. D[x].time \in Nat /\ Max(times) \in Nat /\ D[x].time <= Max(times)
    BY <1>1, <1>2, <1>4
  <2> QED
    BY <1>4, <2>1
<1> HIDE DEF end
<1>7. row = [start |-> Min(TimesOf(D, ds)), end |-> row.end, volume |-> VolumeOf(D, ds)]
  BY <1>5 DEF end, times
<1>8. row.end = D[d].time + timeout
  BY <1>3, <1>5 DEF end
<1>9. \A x \in ds : row.end >= D[x].time + timeout
  BY <1>5, <1>6
<1> QED
  BY <1>7, <1>8, <1>9 DEF MadeOf

\* Sessions that are rebuilt match their drinks, and the others still do: a change that
\* touches only drinks of the sessions in ss.
LEMMA RebuildMatches ==
  ASSUME LedgerShape, LedgerShape', SessionsMatchDrinks, NEW ss,
         SessionsRebuilt(ss, drink'),
         \A d \in DOMAIN drink' : d \in DOMAIN drink /\ drink'[d].session = drink[d].session,
         \A d \in DOMAIN drink : drink[d].session \notin ss =>
           d \in DOMAIN drink' /\ drink'[d].time = drink[d].time
                               /\ drink'[d].volume = drink[d].volume
  PROVE  SessionsMatchDrinks'
<1>0. PICK timeout \in Timeouts : session' = Rebuild(ss, drink', timeout)
  BY DEF SessionsRebuilt
<1>1. DOMAIN session' = {x \in DOMAIN session : x \in ss => DrinksOfSession(drink', x) # {}}
  BY <1>0 DEF Rebuild
<1>2. \A s \in DOMAIN session : MadeOf(session[s], drink, DrinksOfSession(drink, s))
  BY DEF SessionsMatchDrinks
<1>3. \A s : s \notin ss => DrinksOfSession(drink', s) = DrinksOfSession(drink, s)
  BY DEF DrinksOfSession
<1>4. {drink'[d].session : d \in DOMAIN drink'} = DOMAIN session'
  <2>1. {drink[d].session : d \in DOMAIN drink} = DOMAIN session
    BY DEF SessionsMatchDrinks
  <2>2. ASSUME NEW d \in DOMAIN drink' PROVE drink'[d].session \in DOMAIN session'
    BY <1>1, <2>1 DEF DrinksOfSession
  <2>3. ASSUME NEW s \in DOMAIN session' PROVE \E d \in DOMAIN drink' : drink'[d].session = s
    <3>1. s \in DOMAIN session /\ (s \in ss => DrinksOfSession(drink', s) # {})
      BY <1>1
    <3>2. CASE s \in ss
      BY <3>1, <3>2 DEF DrinksOfSession
    <3>3. CASE s \notin ss
      <4>1. PICK d \in DOMAIN drink : drink[d].session = s
        BY <2>1, <3>1
      <4> QED
        BY <3>3, <4>1
    <3> QED
      BY <3>2, <3>3
  <2> QED
    BY <2>2, <2>3
<1>5. ASSUME NEW s \in DOMAIN session'
      PROVE  MadeOf(session'[s], drink', DrinksOfSession(drink', s))
  <2>1. s \in DOMAIN session
    BY <1>1
  <2>2. CASE s \in ss
    <3> DEFINE ds == DrinksOfSession(drink', s)
    <3>1. session'[s] = [start |-> Min(TimesOf(drink', ds)),
                         end |-> Max(TimesOf(drink', ds)) + timeout,
                         volume |-> VolumeOf(drink', ds)]
      BY <1>0, <1>1, <2>2 DEF Rebuild
    <3>2. ds # {}
      BY <1>1, <2>2
    <3>3. \A d \in ds : drink'[d].time \in 0 .. MaxTime
      BY DEF DrinksOfSession, LedgerShape, DrinkRow, Time
    <3> HIDE DEF ds
    <3>4. MadeOf(session'[s], drink', ds)
      BY <3>1, <3>2, <3>3, RebuiltMatches
    <3> QED
      BY <3>4 DEF ds
  <2>3. CASE s \notin ss
    <3> DEFINE ds == DrinksOfSession(drink, s)
    <3>1. ds \in SUBSET DOMAIN drink
      BY DEF DrinksOfSession
    <3>2. IsFiniteSet(ds)
      BY <3>1, DrinksAreFinite
    <3>3. \A d \in ds : drink[d].time = drink'[d].time /\ drink[d].volume = drink'[d].volume
      BY <2>3 DEF DrinksOfSession
    <3>4. MadeOf(session[s], drink, ds)
      BY <1>2, <2>1
    <3> HIDE DEF ds
    <3>5. MadeOf(session[s], drink', ds)
      BY <3>2, <3>3, <3>4, SameSession
    <3>6. session'[s] = session[s]
      BY <1>0, <1>1, <2>3 DEF Rebuild
    <3> QED
      BY <1>3, <2>3, <3>5, <3>6 DEF ds
  <2> QED
    BY <2>2, <2>3
<1>6. SessionsMatchDrinks' <=>
        /\ {drink'[d].session : d \in DOMAIN drink'} = DOMAIN session'
        /\ \A s \in DOMAIN session' :
             MadeOf(session'[s], drink', DrinksOfSession(drink', s))
  BY DEF SessionsMatchDrinks, MadeOf, TimesOf
<1> QED
  BY <1>4, <1>5, <1>6

\* What a request must see to, for the totals of the kegs: those of kegs whose drinks it
\* leaves alone stay right by themselves.
LEMMA ServedStays ==
  ASSUME LedgerShape, ServedIsSumOfDrinks, NEW k \in Kegs,
         DrinksOfKeg(drink', k) = DrinksOfKeg(drink, k),
         \A d \in DrinksOfKeg(drink, k) : drink'[d].volume = drink[d].volume,
         keg'[k].served = keg[k].served
  PROVE  keg'[k].served = VolumeOf(drink', DrinksOfKeg(drink', k))
<1> DEFINE ds == DrinksOfKeg(drink, k)
<1>1. ds \in SUBSET DOMAIN drink
  BY DEF DrinksOfKeg
<1>2. IsFiniteSet(ds)
  BY <1>1, DrinksAreFinite
<1>3. \A d \in ds : drink'[d].volume = drink[d].volume
  OBVIOUS
<1> HIDE DEF ds
<1>4. VolumeOf(drink', ds) = VolumeOf(drink, ds)
  BY <1>2, <1>3, SameVolume
<1> QED
  BY <1>4 DEF ServedIsSumOfDrinks, ds

\* Drink.record_drink: the keg counts the drink, and so does the session it joins or opens.
LEMMA RecordDrinkTotals ==
  ASSUME LedgerShape, LedgerShape', TotalsInv, NEW k \in Kegs, NEW u \in Users, NEW v \in Volumes,
         NEW t \in Time, RecordDrink(k, u, v, t)
  PROVE  TotalsInv'
<1> DEFINE d == lastDrink + 1
           kegRow == [keg[k] EXCEPT !.served = @ + v]
           bare == [start |-> t, end |-> t, volume |-> 0]
<1> USE DEF TotalsInv
<1>1. PICK s \in AssignedSessions(d, t), timeout \in Timeouts :
        LET row == [keg |-> k, user |-> u, volume |-> v, time |-> t, session |-> s]
            base == IF s = d THEN bare ELSE session[s]
        IN  /\ drink' = [x \in DOMAIN drink \cup {d} |-> IF x = d THEN row ELSE drink[x]]
            /\ session' = [x \in DOMAIN session \cup {s} |->
                             IF x = s THEN AddDrink(base, v, t, timeout) ELSE session[x]]
  BY DEF RecordDrink
<1>2. /\ lastDrink \in Nat /\ lastDrink' = d /\ now' = now
      /\ keg' = [keg EXCEPT ![k] = kegRow]
  BY LedgerAssumption DEF RecordDrink, LedgerShape
<1>3. d \notin DOMAIN drink /\ d \notin DOMAIN session
  BY <1>2 DEF LedgerShape
<1>4. s = d \/ s \in DOMAIN session
  BY DEF AssignedSessions
<1>5. /\ DOMAIN drink' = DOMAIN drink \cup {d}
      /\ drink'[d].keg = k /\ drink'[d].volume = v /\ drink'[d].time = t /\ drink'[d].session = s
      /\ \A x \in DOMAIN drink : drink'[x] = drink[x]
  BY <1>1, <1>3
<1>6. /\ DOMAIN session' = DOMAIN session \cup {s}
      /\ session'[s] = AddDrink(IF s = d THEN bare ELSE session[s], v, t, timeout)
      /\ \A x \in DOMAIN session \ {s} : session'[x] = session[x]
  BY <1>1
<1>7. v \in Nat /\ t \in Nat
  BY LedgerAssumption DEF Time
<1>8. kegRow \in KegRow /\ kegRow.served = keg[k].served + v
  BY <1>7 DEF KegRow
<1> HIDE DEF d, kegRow
<1>9. keg' \in [Kegs -> KegRow] /\ DOMAIN session' \subseteq 1 .. lastDrink'
  <2>1. keg' \in [Kegs -> KegRow]
    BY <1>2, <1>8
  <2>2. \A x \in 1 .. lastDrink : x \in 1 .. d
    BY <1>2 DEF d
  <2>3. d \in 1 .. d
    BY <1>2 DEF d
  <2> QED
    BY <1>2, <1>4, <1>6, <2>1, <2>2, <2>3
<1>10. ServedIsSumOfDrinks'
  <2>1. \A x \in Kegs \ {k} : DrinksOfKeg(drink', x) = DrinksOfKeg(drink, x)
    BY <1>3, <1>5 DEF DrinksOfKeg
  <2>2. ASSUME NEW x \in Kegs \ {k}
        PROVE  keg'[x].served = VolumeOf(drink', DrinksOfKeg(drink', x))
    <3>1. \A y \in DrinksOfKeg(drink, x) : drink'[y].volume = drink[y].volume
      BY <1>5 DEF DrinksOfKeg
    <3>2. keg'[x].served = keg[x].served
      BY <1>2
    <3> QED
      BY <2>1, <3>1, <3>2, ServedStays
  <2> DEFINE ds == DrinksOfKeg(drink, k)
  <2>3. DrinksOfKeg(drink', k) = ds \cup {d}
    BY <1>3, <1>5 DEF DrinksOfKeg
  <2>4. /\ IsFiniteSet(ds) /\ d \notin ds
        /\ \A x \in ds : drink'[x].volume = drink[x].volume /\ drink[x].volume \in Nat
    BY <1>3, <1>5, DrinksAreFinite DEF DrinksOfKeg
  <2>5. VolumeOf(drink, ds) = keg[k].served
    BY DEF ServedIsSumOfDrinks
  <2> HIDE DEF ds
  <2>6. VolumeOf(drink', ds \cup {d}) = VolumeOf(drink, ds) + v
    BY <1>5, <1>7, <2>4, VolumeWith
  <2>7. keg'[k].served = keg[k].served + v
    BY <1>2, <1>8
  <2> QED
    BY <2>2, <2>3, <2>5, <2>6, <2>7 DEF ServedIsSumOfDrinks
<1>11. SessionsMatchDrinks'
  <2>1. /\ {drink[x].session : x \in DOMAIN drink} = DOMAIN session
        /\ \A x \in DOMAIN session : MadeOf(session[x], drink, DrinksOfSession(drink, x))
    BY DEF SessionsMatchDrinks
  <2>2. {drink'[x].session : x \in DOMAIN drink'} = DOMAIN session'
    BY <1>5, <1>6, <2>1
  <2>3. ASSUME NEW x \in DOMAIN session'
        PROVE  MadeOf(session'[x], drink', DrinksOfSession(drink', x))
    <3> DEFINE ds == DrinksOfSession(drink, x)
    <3>1. ds \in SUBSET DOMAIN drink /\ d \notin ds
      BY <1>3 DEF DrinksOfSession
    <3>2. \A y \in ds : drink'[y] = drink[y]
      BY <1>5 DEF DrinksOfSession
    <3>3. CASE x # s
      <4>1. DrinksOfSession(drink', x) = ds
        BY <1>3, <1>5, <3>3 DEF DrinksOfSession
      <4>2. IsFiniteSet(ds)
        BY <3>1, DrinksAreFinite
      <4>3. MadeOf(session[x], drink, ds) /\ session'[x] = session[x]
        BY <1>6, <2>1, <3>3
      <4>4. \A y \in ds : drink[y].time = drink'[y].time /\ drink[y].volume = drink'[y].volume
        BY <3>2
      <4> HIDE DEF ds
      <4>5. MadeOf(session[x], drink', ds)
        BY <4>2, <4>3, <4>4, SameSession
      <4> QED
        BY <4>1, <4>3, <4>5
    <3>4. CASE x = s
      <4>1. DrinksOfSession(drink', x) = ds \cup {d}
        BY <1>3, <1>5, <3>4 DEF DrinksOfSession
      <4>2. CASE s = d
        <5>1. ds = {}
          BY <1>3, <2>1, <3>4, <4>2 DEF DrinksOfSession
        <5>2. session'[s] = AddDrink(bare, v, t, timeout)
          BY <1>6, <4>2
        <5>3. MadeOf(AddDrink(bare, v, t, timeout), drink', {d})
          BY <1>5, <1>7, FirstDrinkMatches
        <5> QED
          BY <3>4, <4>1, <5>1, <5>2, <5>3
      <4>3. CASE s # d
        <5>1. s \in DOMAIN session /\ session'[s] = AddDrink(session[s], v, t, timeout)
          BY <1>4, <1>6, <4>3
        <5>2. ds # {}
          BY <2>1, <3>4, <5>1 DEF DrinksOfSession
        <5>3. MadeOf(session[s], drink, ds)
          BY <2>1, <3>4, <5>1
        <5> HIDE DEF ds
        <5>4. MadeOf(AddDrink(session[s], v, t, timeout), drink', ds \cup {d})
          BY <1>5, <1>7, <3>1, <3>2, <5>2, <5>3, AddDrinkMatches
        <5> QED
          BY <3>4, <4>1, <5>1, <5>4
      <4> QED
        BY <4>2, <4>3
    <3> QED
      BY <3>3, <3>4
  <2> QED
    BY <2>2, <2>3 DEF SessionsMatchDrinks, MadeOf, TimesOf
<1> QED
  BY <1>2, <1>9, <1>10, <1>11

\* Two volumes of a row change at once.
LEMMA TwoVolumes ==
  ASSUME NEW row \in KegRow, NEW x \in Int, NEW y \in Int
  PROVE  LET new == [row EXCEPT !.served = @ - x, !.spilled = @ + y]
         IN  new \in KegRow /\ new.served = row.served - x
<1>1. row.served - x \in Int /\ row.spilled + y \in Int
  BY DEF KegRow
<1>2. [row EXCEPT !.served = @ - x, !.spilled = @ + y] =
        [row EXCEPT !.served = row.served - x, !.spilled = row.spilled + y]
  BY DEF KegRow
<1>3. \A a, b \in Int : /\ [row EXCEPT !.served = a, !.spilled = b] \in KegRow
                        /\ [row EXCEPT !.served = a, !.spilled = b].served = a
  BY DEF KegRow
<1> QED
  BY <1>1, <1>2, <1>3

\* Drink.cancel_drink: the keg forgets the drink, its session is rebuilt.
LEMMA CancelDrinkTotals ==
  ASSUME LedgerShape, LedgerShape', TotalsInv, NEW d \in DOMAIN drink, NEW spilled \in BOOLEAN,
         CancelDrink(d, spilled)
  PROVE  TotalsInv'
<1> DEFINE k == drink[d].keg
           extra == IF spilled THEN drink[d].volume ELSE 0
           row == [keg[k] EXCEPT !.served = @ - drink[d].volume, !.spilled = @ + extra]
<1> USE DEF TotalsInv
<1>1. /\ drink' = Without(drink, {d}) /\ SessionsRebuilt({drink[d].session}, drink')
      /\ now' = now /\ lastDrink' = lastDrink
      /\ keg' = [keg EXCEPT ![k] = row]
  BY DEF CancelDrink, LedgerShape
<1>2. /\ DOMAIN drink' = DOMAIN drink \ {d}
      /\ \A x \in DOMAIN drink' : drink'[x] = drink[x]
  BY <1>1 DEF Without
<1>3. k \in Kegs /\ drink[d].volume \in Nat
  BY DrinksAreFinite DEF LedgerShape, DrinkRow
<1>4. row \in KegRow /\ row.served = keg[k].served - drink[d].volume
  <2>1. extra \in Int
    BY <1>3
  <2>2. keg[k] \in KegRow
    BY <1>3
  <2>3. \A r \in KegRow, x, y \in Int :
          LET new == [r EXCEPT !.served = @ - x, !.spilled = @ + y]
          IN  new \in KegRow /\ new.served = r.served - x
    BY TwoVolumes
  <2>4. drink[d].volume \in Int
    BY <1>3
  <2> HIDE DEF extra, k
  <2> QED
    BY <2>1, <2>2, <2>3, <2>4
<1> HIDE DEF row
<1>5. keg' \in [Kegs -> KegRow] /\ DOMAIN session' \subseteq 1 .. lastDrink'
  BY <1>1, <1>4, RebuildShrinks
<1>6. ServedIsSumOfDrinks'
  <2>1. ASSUME NEW x \in Kegs \ {k}
        PROVE  keg'[x].served = VolumeOf(drink', DrinksOfKeg(drink', x))
    <3>1. DrinksOfKeg(drink', x) = DrinksOfKeg(drink, x)
      BY <1>2 DEF DrinksOfKeg
    <3>2. \A y \in DrinksOfKeg(drink, x) : drink'[y].volume = drink[y].volume
      BY <1>2 DEF DrinksOfKeg
    <3>3. keg'[x].served = keg[x].served
      BY <1>1
    <3> QED
      BY <3>1, <3>2, <3>3, ServedStays
  <2> DEFINE ds == DrinksOfKeg(drink, k)
  <2>2. DrinksOfKeg(drink', k) = ds \ {d} /\ d \in ds
    BY <1>2 DEF DrinksOfKeg
  <2>3. /\ IsFiniteSet(ds) /\ \A x \in ds : drink[x].volume \in Nat
        /\ \A x \in ds \ {d} : drink'[x].volume = drink[x].volume
    BY <1>2, DrinksAreFinite DEF DrinksOfKeg
  <2>4. VolumeOf(drink, ds) = keg[k].served
    BY <1>3 DEF ServedIsSumOfDrinks
  <2> HIDE DEF ds
  <2>5. VolumeOf(drink', ds \ {d}) = VolumeOf(drink, ds) - drink[d].volume
    BY <2>2, <2>3, VolumeWithout
  <2>6. keg'[k].served = keg[k].served - drink[d].volume
    BY <1>1, <1>3, <1>4
  <2> QED
    BY <2>1, <2>2, <2>4, <2>5, <2>6 DEF ServedIsSumOfDrinks
<1>7. SessionsMatchDrinks'
  <2>1. \A x \in DOMAIN drink' : x \in DOMAIN drink /\ drink'[x].session = drink[x].session
    BY <1>2
  <2>2. \A x \in DOMAIN drink : drink[x].session \notin {drink[d].session} =>
          x \in DOMAIN drink' /\ drink'[x].time = drink[x].time
                              /\ drink'[x].volume = drink[x].volume
    BY <1>2
  <2> QED
    BY <1>1, <2>1, <2>2, RebuildMatches
<1> QED
  BY <1>1, <1>5, <1>6, <1>7

\* Drink.reassign moves no volume.
LEMMA ReassignTotals ==
  ASSUME LedgerShape, LedgerShape', TotalsInv, NEW d \in DOMAIN drink, NEW u \in Users,
         Reassign(d, u)
  PROVE  TotalsInv'
<1> USE DEF TotalsInv
<1>1. /\ drink' = [drink EXCEPT ![d].user = u] /\ SessionsRebuilt({drink[d].session}, drink')
      /\ now' = now /\ lastDrink' = lastDrink /\ keg' = keg
  BY DEF Reassign
<1>2. /\ DOMAIN drink' = DOMAIN drink
      /\ \A x \in DOMAIN drink :
           /\ drink'[x].keg = drink[x].keg /\ drink'[x].volume = drink[x].volume
           /\ drink'[x].session = drink[x].session /\ drink'[x].time = drink[x].time
  BY <1>1 DEF LedgerShape, DrinkRow
<1>3. DOMAIN session' \subseteq 1 .. lastDrink'
  BY <1>1, RebuildShrinks
<1>4. ServedIsSumOfDrinks'
  <2>1. ASSUME NEW x \in Kegs
        PROVE  keg'[x].served = VolumeOf(drink', DrinksOfKeg(drink', x))
    <3>1. DrinksOfKeg(drink', x) = DrinksOfKeg(drink, x)
      BY <1>2 DEF DrinksOfKeg
    <3>2. \A y \in DrinksOfKeg(drink, x) : drink'[y].volume = drink[y].volume
      BY <1>2 DEF DrinksOfKeg
    <3> QED
      BY <1>1, <3>1, <3>2, ServedStays
  <2> QED
    BY <2>1 DEF ServedIsSumOfDrinks
<1>5. SessionsMatchDrinks'
  <2>1. \A x \in DOMAIN drink' : x \in DOMAIN drink /\ drink'[x].session = drink[x].session
    BY <1>2
  <2>2. \A x \in DOMAIN drink : drink[x].session \notin {drink[d].session} =>
          x \in DOMAIN drink' /\ drink'[x].time = drink[x].time
                              /\ drink'[x].volume = drink[x].volume
    BY <1>2
  <2> QED
    BY <1>1, <2>1, <2>2, RebuildMatches
<1> QED
  BY <1>1, <1>3, <1>4, <1>5

\* Drink.set_volume: the keg counts the difference, the session is rebuilt.
LEMMA SetVolumeTotals ==
  ASSUME LedgerShape, LedgerShape', TotalsInv, NEW d \in DOMAIN drink, NEW v \in Volumes,
         SetVolume(d, v)
  PROVE  TotalsInv'
<1> DEFINE k == drink[d].keg
           row == [keg[k] EXCEPT !.served = @ + (v - drink[d].volume)]
<1> USE DEF TotalsInv
<1>1. /\ drink' = [drink EXCEPT ![d].volume = v] /\ SessionsRebuilt({drink[d].session}, drink')
      /\ now' = now /\ lastDrink' = lastDrink
      /\ keg' = [keg EXCEPT ![k] = row]
  BY DEF SetVolume
<1>2. /\ DOMAIN drink' = DOMAIN drink
      /\ drink'[d].volume = v
      /\ \A x \in DOMAIN drink \ {d} : drink'[x] = drink[x]
      /\ \A x \in DOMAIN drink :
           drink'[x].keg = drink[x].keg /\ drink'[x].session = drink[x].session
  BY <1>1 DEF LedgerShape, DrinkRow
<1>3. k \in Kegs /\ drink[d].volume \in Nat /\ v \in Nat
  BY DrinksAreFinite, LedgerAssumption DEF LedgerShape, DrinkRow
<1>4. row \in KegRow /\ row.served = keg[k].served + (v - drink[d].volume)
  BY <1>3 DEF KegRow
<1> HIDE DEF row
<1>5. keg' \in [Kegs -> KegRow] /\ DOMAIN session' \subseteq 1 .. lastDrink'
  BY <1>1, <1>4, RebuildShrinks
<1>6. ServedIsSumOfDrinks'
  <2>1. \A x \in Kegs : DrinksOfKeg(drink', x) = DrinksOfKeg(drink, x)
    BY <1>2 DEF DrinksOfKeg
  <2>2. ASSUME NEW x \in Kegs \ {k}
        PROVE  keg'[x].served = VolumeOf(drink', DrinksOfKeg(drink', x))
    <3>1. \A y \in DrinksOfKeg(drink, x) : drink'[y].volume = drink[y].volume
      BY <1>2 DEF DrinksOfKeg
    <3>2. keg'[x].served = keg[x].served
      BY <1>1
    <3> QED
      BY <2>1, <3>1, <3>2, ServedStays
  <2> DEFINE ds == DrinksOfKeg(drink, k)
  <2>3. /\ IsFiniteSet(ds) /\ \A x \in ds : drink[x].volume \in Nat
        /\ d \in ds /\ \A x \in ds \ {d} : drink'[x].volume = drink[x].volume
    BY <1>2, DrinksAreFinite DEF DrinksOfKeg
  <2>4. VolumeOf(drink, ds) = keg[k].served
    BY <1>3 DEF ServedIsSumOfDrinks
  <2> HIDE DEF ds
  <2>5. VolumeOf(drink', ds) = VolumeOf(drink, ds) + (v - drink[d].volume)
    <3>1. drink'[d].volume \in Nat
      BY <1>2, <1>3
    <3>2. VolumeOf(drink', ds) = VolumeOf(drink, ds) + (drink'[d].volume - drink[d].volume)
      BY <2>3, <3>1, VolumeChanged
    <3> QED
      BY <1>2, <3>2
  <2>6. keg'[k].served = keg[k].served + (v - drink[d].volume)
    BY <1>1, <1>3, <1>4
  <2>7. DrinksOfKeg(drink', k) = ds
    BY <1>3, <2>1 DEF ds
  <2> QED
    BY <2>2, <2>4, <2>5, <2>6, <2>7 DEF ServedIsSumOfDrinks
<1>7. SessionsMatchDrinks'
  <2>1. \A x \in DOMAIN drink' : x \in DOMAIN drink /\ drink'[x].session = drink[x].session
    BY <1>2
  <2>2. \A x \in DOMAIN drink : drink[x].session \notin {drink[d].session} =>
          x \in DOMAIN drink' /\ drink'[x].time = drink[x].time
                              /\ drink'[x].volume = drink[x].volume
    BY <1>2
  <2> QED
    BY <1>1, <2>1, <2>2, RebuildMatches
<1> QED
  BY <1>1, <1>5, <1>6, <1>7

\* Keg.cancel: the keg's drinks go, and the sessions they were in are rebuilt.
LEMMA EraseKegTotals ==
  ASSUME DrinkInv, LedgerShape', TotalsInv, NEW k \in Kegs, EraseKeg(k)
  PROVE  TotalsInv'
<1> DEFINE gone == DrinksOfKeg(drink, k)
           ss == {drink[d].session : d \in gone}
<1> USE DEF TotalsInv, DrinkInv
<1>1. /\ drink' = Without(drink, gone) /\ SessionsRebuilt(ss, drink')
      /\ now' = now /\ lastDrink' = lastDrink
      /\ keg' = [keg EXCEPT ![k] = EmptyKeg]
  BY DEF EraseKeg
<1>2. /\ DOMAIN drink' = DOMAIN drink \ gone
      /\ \A x \in DOMAIN drink' : drink'[x] = drink[x]
  BY <1>1 DEF Without
<1>3. EmptyKeg \in KegRow /\ EmptyKeg.served = 0
  BY LedgerAssumption DEF EmptyKeg, KegRow
<1>4. keg' \in [Kegs -> KegRow] /\ DOMAIN session' \subseteq 1 .. lastDrink'
  BY <1>1, <1>3, RebuildShrinks
<1>5. ServedIsSumOfDrinks'
  <2>1. ASSUME NEW x \in Kegs \ {k}
        PROVE  keg'[x].served = VolumeOf(drink', DrinksOfKeg(drink', x))
    <3>1. DrinksOfKeg(drink', x) = DrinksOfKeg(drink, x)
      BY <1>2 DEF DrinksOfKeg
    <3>2. \A y \in DrinksOfKeg(drink, x) : drink'[y].volume = drink[y].volume
      BY <1>2 DEF DrinksOfKeg
    <3>3. keg'[x].served = keg[x].served
      BY <1>1
    <3> QED
      BY <3>1, <3>2, <3>3, ServedStays
  <2>2. DrinksOfKeg(drink', k) = {}
    BY <1>2 DEF DrinksOfKeg
  <2>3. keg'[k].served = VolumeOf(drink', DrinksOfKeg(drink', k))
    BY <1>1, <1>3, <2>2, NoVolume
  <2> QED
    BY <2>1, <2>3 DEF ServedIsSumOfDrinks
<1>6. SessionsMatchDrinks'
  <2>1. \A x \in DOMAIN drink' : x \in DOMAIN drink /\ drink'[x].session = drink[x].session
    BY <1>2
  <2>2. \A x \in DOMAIN drink : drink[x].session \notin ss =>
          x \in DOMAIN drink' /\ drink'[x].time = drink[x].time
                              /\ drink'[x].volume = drink[x].volume
    BY <1>2
  <2> HIDE DEF ss
  <2> QED
    BY <1>1, <2>1, <2>2, RebuildMatches
<1> QED
  BY <1>1, <1>4, <1>5, <1>6

\* A request that saves Keg rows keeps the totals of kegs that have drinks.
LEMMA KegRowsTotals ==
  ASSUME DrinkInv, TotalsInv, KegRowsKeepDrinks, now' = now, keg' \in [Kegs -> KegRow],
         \A k \in Kegs : \/ keg'[k].served = keg[k].served
                         \/ keg'[k].served = 0 /\ DrinksOfKeg(drink, k) = {}
  PROVE  TotalsInv'
<1>1. drink' = drink /\ session' = session /\ lastDrink' = lastDrink
  BY DEF KegRowsKeepDrinks
<1>2. \A k \in Kegs : keg'[k].served = VolumeOf(drink, DrinksOfKeg(drink, k))
  BY NoVolume DEF TotalsInv, ServedIsSumOfDrinks
<1>3. ServedIsSumOfDrinks'
  BY <1>1, <1>2 DEF ServedIsSumOfDrinks
<1>4. SessionsMatchDrinks'
  BY <1>1 DEF TotalsInv, SessionsMatchDrinks
<1> QED
  BY <1>1, <1>3, <1>4 DEF TotalsInv

\* _keg_pre_save changes times only.
LEMMA PreSaveRow ==
  ASSUME LedgerShape, NEW k \in Kegs, NEW row \in KegRow
  PROVE  PreSave(row, drink, k) \in KegRow /\ PreSave(row, drink, k).served = row.served
<1> DEFINE saved == PreSave(row, drink, k)
<1>1. RowShape(row)
  BY DEF RowShape, KegRow
<1>2. saved.start \in Nat /\ saved.end \in Nat
  BY <1>1, PreSaveSpans DEF RowShape
<1>3. \E a, b : saved = [row EXCEPT !.start = a, !.end = b]
  BY DEF PreSave
<1> HIDE DEF saved
<1>4. /\ DOMAIN saved = {"served", "spilled", "full", "start", "end"}
      /\ saved.served = row.served /\ saved.spilled = row.spilled /\ saved.full = row.full
      /\ saved = [f \in DOMAIN saved |-> saved[f]]
  BY <1>3 DEF KegRow
<1>5. saved \in KegRow
  BY <1>2, <1>4 DEF KegRow
<1> QED
  BY <1>4, <1>5 DEF saved

LEMMA EndedRowTotal ==
  ASSUME LedgerShape, TotalsInv, NEW k \in Kegs
  PROVE  EndedRow(k) \in KegRow /\ EndedRow(k).served = keg[k].served
<1> DEFINE row == [keg[k] EXCEPT !.end = now]
<1>1. row \in KegRow /\ row.served = keg[k].served
  BY DEF TotalsInv, KegRow, Time
<1>2. EndedRow(k) = PreSave(row, drink, k)
  BY DEF EndedRow
<1> HIDE DEF row
<1> QED
  BY <1>1, <1>2, PreSaveRow

LEMMA NewRowTotal ==
  ASSUME TotalsInv, NEW full \in FullVolumes
  PROVE  /\ NewKeg(full) \in KegRow /\ NewKeg(full).served = 0
         /\ AttachedRow(NewKeg(full)) \in KegRow /\ AttachedRow(NewKeg(full)).served = 0
BY DEF TotalsInv, NewKeg, AttachedRow, KegRow, Time

\* A tap's keg, if any, is ended.
LEMMA RowsWithEndedTotals ==
  ASSUME LedgerShape, TotalsInv, NEW t \in Taps
  PROVE  /\ RowsWithEnded(t) \in [Kegs -> KegRow]
         /\ \A k \in Kegs : RowsWithEnded(t)[k].served = keg[k].served
BY EndedRowTotal DEF RowsWithEnded, TotalsInv

\* Requests about taps and kegs.
LEMMA RoomRequestsKeepTotals ==
  ASSUME KegbotInv, TotalsInv,
         \/ \E t \in Taps : \/ AddTap(t) \/ ApiDeleteTap(t) \/ AdminDeleteTap(t) \/ EndTapKeg(t)
                            \/ \E k \in Kegs : ChangeKeg(t, k) \/ AttachKeg(t, k)
         \/ \E k \in Kegs : AddKeg(k) \/ EndKeg(k) \/ ReactivateKeg(k)
  PROVE  TotalsInv'
<1>1. /\ LedgerShape /\ DrinkInv /\ keg \in [Kegs -> KegRow] /\ now \in Nat
      /\ \A k \in Kegs : status[k] = "absent" => DrinksOfKeg(drink, k) = {}
  BY DEF KegbotInv, DrinkInv, TotalsInv, DrinksComeFromTappedKegs, Time
<1>2. ASSUME NEW t \in Taps, AddTap(t) \/ ApiDeleteTap(t) PROVE TotalsInv'
  <2>1. UNCHANGED ledgerVars
    BY <1>2 DEF AddTap, ApiDeleteTap
  <2>2. KegRowsKeepDrinks /\ now' = now /\ keg' = keg
    BY <2>1 DEF ledgerVars, KegRowsKeepDrinks
  <2> QED
    BY <1>1, <2>2, KegRowsTotals
<1>3. ASSUME NEW t \in Taps, AdminDeleteTap(t) \/ EndTapKeg(t) PROVE TotalsInv'
  <2>1. KegRowsBecome(RowsWithEnded(t))
    BY <1>3 DEF AdminDeleteTap, EndTapKeg
  <2>2. KegRowsKeepDrinks /\ now' = now /\ keg' = RowsWithEnded(t)
    BY <2>1 DEF KegRowsBecome, KegRowsKeepDrinks
  <2> QED
    BY <1>1, <2>2, RowsWithEndedTotals, KegRowsTotals
<1>4. ASSUME NEW t \in Taps, NEW k \in Kegs, ChangeKeg(t, k) PROVE TotalsInv'
  <2>1. PICK full \in FullVolumes :
          KegRowsBecome([RowsWithEnded(t) EXCEPT ![k] = AttachedRow(NewKeg(full))])
    BY <1>4 DEF ChangeKeg
  <2>2. /\ KegRowsKeepDrinks /\ now' = now
        /\ keg' = [RowsWithEnded(t) EXCEPT ![k] = AttachedRow(NewKeg(full))]
    BY <2>1 DEF KegRowsBecome, KegRowsKeepDrinks
  <2>3. DrinksOfKeg(drink, k) = {}
    BY <1>1, <1>4 DEF ChangeKeg, Room!ChangeKegRequest, Room!ChangeKeg
  <2>4. /\ AttachedRow(NewKeg(full)) \in KegRow /\ AttachedRow(NewKeg(full)).served = 0
        /\ RowsWithEnded(t) \in [Kegs -> KegRow]
        /\ \A x \in Kegs : RowsWithEnded(t)[x].served = keg[x].served
    BY <1>1, NewRowTotal, RowsWithEndedTotals
  <2>5. /\ keg' \in [Kegs -> KegRow]
        /\ keg'[k].served = 0 /\ \A x \in Kegs \ {k} : keg'[x].served = keg[x].served
    BY <2>2, <2>4
  <2> QED
    BY <1>1, <2>2, <2>3, <2>5, KegRowsTotals
<1>5. ASSUME NEW k \in Kegs, NEW row \in KegRow,
             KegRowsBecome([keg EXCEPT ![k] = row]),
             row.served = keg[k].served \/ (row.served = 0 /\ DrinksOfKeg(drink, k) = {})
      PROVE  TotalsInv'
  <2>1. KegRowsKeepDrinks /\ now' = now /\ keg' = [keg EXCEPT ![k] = row]
    BY <1>5 DEF KegRowsBecome, KegRowsKeepDrinks
  <2>2. /\ keg' \in [Kegs -> KegRow]
        /\ keg'[k] = row /\ \A x \in Kegs \ {k} : keg'[x] = keg[x]
    BY <1>1, <2>1
  <2> QED
    BY <1>1, <1>5, <2>1, <2>2, KegRowsTotals
<1>6. ASSUME NEW t \in Taps, NEW k \in Kegs, AttachKeg(t, k) PROVE TotalsInv'
  <2>1. AttachedRow(keg[k]) \in KegRow /\ AttachedRow(keg[k]).served = keg[k].served
    BY <1>1 DEF AttachedRow, KegRow
  <2> QED
    BY <1>5, <1>6, <2>1 DEF AttachKeg
<1>7. ASSUME NEW k \in Kegs, AddKeg(k) PROVE TotalsInv'
  <2>1. DrinksOfKeg(drink, k) = {}
    BY <1>1, <1>7 DEF AddKeg, Room!AddKeg
  <2> QED
    BY <1>5, <1>7, <2>1, NewRowTotal DEF AddKeg
<1>8. ASSUME NEW k \in Kegs, EndKeg(k) PROVE TotalsInv'
  BY <1>1, <1>5, <1>8, EndedRowTotal DEF EndKeg
<1>9. ASSUME NEW k \in Kegs, ReactivateKeg(k) PROVE TotalsInv'
  BY <1>1, <1>5, <1>9, PreSaveRow DEF ReactivateKeg
<1> QED
  BY <1>2, <1>3, <1>4, <1>6, <1>7, <1>8, <1>9

\* Spills and edits of a keg leave its served volume alone.
LEMMA VolumeRequestsKeepTotals ==
  ASSUME KegbotInv, TotalsInv,
         \/ \E t \in Taps, v \in Volumes : Spill(t, v)
         \/ \E k \in Kegs, full \in FullVolumes, spilled \in 0 .. MaxSpilled :
              EditKeg(k, full, spilled)
  PROVE  TotalsInv'
<1>1. LedgerShape /\ DrinkInv /\ keg \in [Kegs -> KegRow]
  BY DEF KegbotInv, DrinkInv, TotalsInv
<1>2. ASSUME NEW k \in Kegs, NEW row \in KegRow, KegRowsKeepDrinks, now' = now,
             keg' = [keg EXCEPT ![k] = row], row.served = keg[k].served
      PROVE  TotalsInv'
  <2>1. /\ keg' \in [Kegs -> KegRow] /\ \A x \in Kegs : keg'[x].served = keg[x].served
    BY <1>1, <1>2
  <2> QED
    BY <1>1, <1>2, <2>1, KegRowsTotals
<1>3. ASSUME NEW t \in Taps, NEW v \in Volumes, Spill(t, v) PROVE TotalsInv'
  <2> DEFINE k == currentKeg[t]
             row == [keg[k] EXCEPT !.spilled = @ + v]
  <2>1. k \in Kegs
    BY <1>3 DEF Spill, Room!IsActive, KegbotInv, P!RoomInv, P!RoomTypeOK
  <2>2. /\ KegRowsKeepDrinks /\ now' = now /\ keg' = [keg EXCEPT ![k] = row]
    BY <1>3 DEF Spill, RecordSpill, KegRowsKeepDrinks
  <2>3. row \in KegRow /\ row.served = keg[k].served
    BY <1>1, <2>1, LedgerAssumption DEF KegRow
  <2> QED
    BY <1>2, <2>1, <2>2, <2>3
<1>4. ASSUME NEW k \in Kegs, NEW full \in FullVolumes, NEW spilled \in 0 .. MaxSpilled,
             EditKeg(k, full, spilled)
      PROVE  TotalsInv'
  <2> DEFINE row == [keg[k] EXCEPT !.full = full, !.spilled = spilled]
             saved == IF status[k] = "on_tap" THEN row ELSE PreSave(row, drink, k)
  <2>1. KegRowsKeepDrinks /\ now' = now /\ keg' = [keg EXCEPT ![k] = saved]
    BY <1>4 DEF EditKeg, KegRowsBecome, KegRowsKeepDrinks
  <2>2. row \in KegRow /\ row.served = keg[k].served
    <3>1. spilled \in Int
      OBVIOUS
    <3> QED
      BY <1>1, <3>1 DEF KegRow
  <2> HIDE DEF row
  <2>3. saved \in KegRow /\ saved.served = keg[k].served
    BY <1>1, <2>2, PreSaveRow
  <2> QED
    BY <1>2, <2>1, <2>3
<1> QED
  BY <1>3, <1>4

LEMMA TotalsInit == Init => TotalsInv
<1> SUFFICES ASSUME Init PROVE TotalsInv
  OBVIOUS
<1>1. /\ now = 0 /\ keg = [k \in Kegs |-> EmptyKeg] /\ DOMAIN drink = {} /\ DOMAIN session = {}
  BY DEF Init, LedgerInit
<1>2. EmptyKeg \in KegRow /\ EmptyKeg.served = 0
  BY LedgerAssumption DEF EmptyKeg, KegRow
<1>3. \A k \in Kegs : DrinksOfKeg(drink, k) = {}
  BY <1>1 DEF DrinksOfKeg
<1>4. ServedIsSumOfDrinks
  BY <1>1, <1>2, <1>3, NoVolume DEF ServedIsSumOfDrinks
<1>5. SessionsMatchDrinks
  BY <1>1 DEF SessionsMatchDrinks
<1> QED
  BY <1>1, <1>2, <1>4, <1>5, LedgerAssumption DEF TotalsInv, Time

LEMMA TotalsNext == KegbotInv /\ TotalsInv /\ [Next]_vars => TotalsInv'
<1> SUFFICES ASSUME KegbotInv, TotalsInv, [Next]_vars PROVE TotalsInv'
  OBVIOUS
<1>1. DrinkInv /\ LedgerShape /\ LedgerShape'
  BY KegbotNextInv DEF KegbotInv, DrinkInv
<1>2. CASE Tick \/ UNCHANGED vars
  <2>1. UNCHANGED <<keg, drink, session, lastDrink>> /\ now' \in Time
    BY <1>2, LedgerAssumption DEF Tick, vars, ledgerVars, TotalsInv, Time
  <2> QED
    BY <2>1 DEF TotalsInv, ServedIsSumOfDrinks, SessionsMatchDrinks, DrinksOfSession, DrinksOfKeg
<1>3. ASSUME NEW t \in Taps, NEW u \in Users, NEW v \in Volumes, NEW time \in Time,
             Pour(t, u, v, time)
      PROVE  TotalsInv'
  <2>1. currentKeg[t] \in Kegs
    BY <1>3 DEF Pour, Room!IsActive, KegbotInv, P!RoomInv, P!RoomTypeOK
  <2> QED
    BY <1>1, <1>3, <2>1, RecordDrinkTotals DEF Pour
<1>4. ASSUME NEW d \in DOMAIN drink, EditDrink(d) PROVE TotalsInv'
  BY <1>1, <1>4, CancelDrinkTotals, ReassignTotals, SetVolumeTotals DEF EditDrink
<1>5. ASSUME NEW k \in Kegs, CancelKeg(k) PROVE TotalsInv'
  BY <1>1, <1>5, EraseKegTotals DEF CancelKeg
<1>6. CASE Next /\ ~Tick
  BY <1>3, <1>4, <1>5, <1>6, RoomRequestsKeepTotals, VolumeRequestsKeepTotals DEF Next
<1> QED
  BY <1>2, <1>6

\* What holds of totals holds throughout.
THEOREM TotalsInvariance == Spec => [](KegbotInv /\ TotalsInv)
BY KegbotInitInv, KegbotNextInv, TotalsInit, TotalsNext, PTL DEF Spec

\* Keg.served_volume_ml, kept up by pours, cancellations and adjustments, is the sum of
\* the keg's drinks after any sequence of requests.
THEOREM ServedVolumesAreSums == Spec => []ServedIsSumOfDrinks
<1>1. TotalsInv => ServedIsSumOfDrinks
  BY DEF TotalsInv
<1> QED
  BY <1>1, TotalsInvariance, PTL

\* A session's start, end and volume are those of its drinks, whether it grew drink by
\* drink (AddDrink) or was recomputed (Rebuild), and there are no others.
THEOREM SessionsAlwaysMatch == Spec => []SessionsMatchDrinks
<1>1. TotalsInv => SessionsMatchDrinks
  BY DEF TotalsInv
<1> QED
  BY <1>1, TotalsInvariance, PTL

\* Rows have their types; a session's comes from what its drinks make of it.
LEMMA SessionRowsHaveTheirType ==
  ASSUME LedgerShape, TotalsInv, NEW s \in DOMAIN session
  PROVE  session[s] \in SessionRow
<1> DEFINE ds == DrinksOfSession(drink, s)
           row == session[s]
<1>1. MadeOf(row, drink, ds)
  BY DEF TotalsInv, SessionsMatchDrinks
<1>2. ds \in SUBSET DOMAIN drink /\ ds # {}
  BY DEF TotalsInv, SessionsMatchDrinks, DrinksOfSession
<1>3. IsFiniteSet(ds) /\ \A d \in ds : drink[d].volume \in Nat /\ drink[d].time \in Nat
  BY <1>2, DrinksAreFinite
<1> HIDE DEF ds, row
<1>4. VolumeOf(drink, ds) \in Nat
  BY <1>3, VolumeIsNat
<1>5. Min(TimesOf(drink, ds)) \in Nat
  BY <1>2, TimesFacts
<1>6. row.end \in Nat
  BY <1>1, <1>3, LedgerAssumption DEF MadeOf
<1>7. row = [start |-> Min(TimesOf(drink, ds)), end |-> row.end, volume |-> VolumeOf(drink, ds)]
  BY <1>1 DEF MadeOf
<1>8. row \in SessionRow
  BY <1>4, <1>5, <1>6, <1>7 DEF SessionRow
<1> QED
  BY <1>8 DEF row

\* The rows of kegs, drinks, sessions, taps and events keep their types.
THEOREM KegbotTypeCorrect == Spec => []TypeOK
<1>1. KegbotInv /\ TotalsInv => TypeOK
  <2> SUFFICES ASSUME KegbotInv, TotalsInv PROVE TypeOK
    OBVIOUS
  <2>1. LedgerShape
    BY DEF KegbotInv, DrinkInv
  <2>2. DOMAIN drink \subseteq DrinkIds
    BY <2>1, LedgerAssumption DEF LedgerShape, DrinkIds
  <2>3. LedgerTypeOK
    BY <2>1, <2>2, SessionRowsHaveTheirType DEF LedgerTypeOK, LedgerShape, TotalsInv
  <2>4. Room!RoomTypeOK
    BY DEF KegbotInv, P!RoomInv, P!RoomTypeOK, Room!RoomTypeOK, P!Status, Room!Status
  <2> QED
    BY <2>3, <2>4 DEF TypeOK
<1> QED
  BY <1>1, TotalsInvariance, PTL

=============================================================================
