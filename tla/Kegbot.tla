------------------------------- MODULE Kegbot -------------------------------
(***************************************************************************)
(* The core of the server: the taps and kegs of TapRoom together with the  *)
(* drinks, sessions, volumes and events of PourLedger.  One action is one  *)
(* request, served with no other overlapping it.                           *)
(***************************************************************************)
EXTENDS PourLedger

CONSTANT Taps

VARIABLES taps, currentKeg, status, kegEvents

Room == INSTANCE TapRoom

roomVars == <<taps, currentKeg, status, kegEvents>>

vars == <<ledgerVars, roomVars>>

TypeOK == LedgerTypeOK /\ Room!RoomTypeOK

Init == LedgerInit /\ Room!RoomInit

\* Only the Keg rows of the ledger change, to what f says.
KegRowsBecome(f) ==
  /\ keg' = f
  /\ UNCHANGED <<now, drink, session, events, lastDrink>>

-----------------------------------------------------------------------------
(* Taps and kegs *)

Tick ==
  /\ now < MaxTime
  /\ now' = now + 1
  /\ UNCHANGED <<keg, drink, session, events, lastDrink, roomVars>>

AddTap(t) == Room!AddTap(t) /\ UNCHANGED ledgerVars

ApiDeleteTap(t) == Room!ApiDeleteTap(t) /\ UNCHANGED ledgerVars

\* The Keg rows once the keg of tap t, if any, is ended.
RowsWithEnded(t) ==
  [k \in Kegs |-> IF k = currentKeg[t] THEN EndedRow(k) ELSE keg[k]]

AdminDeleteTap(t) == Room!AdminDeleteTap(t) /\ KegRowsBecome(RowsWithEnded(t))

EndTapKeg(t) == Room!EndTapKeg(t) /\ KegRowsBecome(RowsWithEnded(t))

AddKeg(k) ==
  /\ Room!AddKeg(k)
  /\ \E full \in FullVolumes : KegRowsBecome([keg EXCEPT ![k] = NewKeg(full)])

ChangeKeg(t, k) ==
  /\ Room!ChangeKegRequest(t, k)
  /\ \E full \in FullVolumes :
       KegRowsBecome([RowsWithEnded(t) EXCEPT ![k] = AttachedRow(NewKeg(full))])

AttachKeg(t, k) ==
  /\ Room!AttachKeg(t, k)
  /\ KegRowsBecome([keg EXCEPT ![k] = AttachedRow(keg[k])])

\* As below, without the refusal while a tap holds the keg (a mutant).
EndTappedKeg(k) ==
  /\ status[k] # "absent"
  /\ Room!SaveKegs([status EXCEPT ![k] = "finished"], {k})
  /\ UNCHANGED <<taps, currentKeg>>
  /\ KegRowsBecome([keg EXCEPT ![k] = EndedRow(k)])

EndKeg(k) ==
  /\ Room!EndKeg(k)
  /\ KegRowsBecome([keg EXCEPT ![k] = EndedRow(k)])

ReactivateKeg(k) ==
  /\ Room!ReactivateKeg(k)
  /\ KegRowsBecome([keg EXCEPT ![k] = PreSave(keg[k], drink, k)])

CancelKeg(k) == Room!CancelKeg(k) /\ EraseKeg(k)

\* EditKegForm.save: the admin corrects the full and the spilled volume.
EditKeg(k, full, spilled) ==
  LET row == [keg[k] EXCEPT !.full = full, !.spilled = spilled]
  IN  /\ status[k] # "absent"
      /\ KegRowsBecome([keg EXCEPT ![k] = IF status[k] = "on_tap" THEN row
                                          ELSE PreSave(row, drink, k)])
      /\ UNCHANGED roomVars

-----------------------------------------------------------------------------
(* Drinks *)

\* As below, charging a keg that is not connected (a mutant).
PourAnyKeg(t, u, v, time) ==
  /\ t \in taps
  /\ \E k \in Kegs : status[k] # "absent" /\ RecordDrink(k, u, v, time)
  /\ UNCHANGED roomVars

\* POST /api/taps/<tap> and the admin's "Record drink": Drink.record_drink on the
\* keg of the tap, refused when there is none.  The reported time of the pour may
\* lie before or after the clock.  build_events_for_keg has a part in it.
Pour(t, u, v, time) ==
  /\ t \in taps
  /\ Room!IsActive(t)
  /\ RecordDrink(currentKeg[t], u, v, time)
  /\ Room!SaveKegs(status, {currentKeg[t]})
  /\ UNCHANGED <<taps, currentKeg>>

\* POST /api/taps/<tap>/spill and the admin's "Record spill".
Spill(t, v) ==
  /\ t \in taps
  /\ Room!IsActive(t)
  /\ RecordSpill(currentKeg[t], v)
  /\ UNCHANGED roomVars

\* The drink pages of the admin, and POST /api/cancel-drink.
EditDrink(d) ==
  /\ \/ \E spilled \in BOOLEAN : CancelDrink(d, spilled)
     \/ \E u \in Users : Reassign(d, u)
     \/ \E v \in Volumes : SetVolume(d, v)
  /\ UNCHANGED roomVars

Next ==
  \/ Tick
  \/ \E t \in Taps :
       \/ AddTap(t)
       \/ ApiDeleteTap(t)
       \/ AdminDeleteTap(t)
       \/ EndTapKeg(t)
       \/ \E k \in Kegs : ChangeKeg(t, k) \/ AttachKeg(t, k)
       \/ \E u \in Users, v \in Volumes, time \in Time : Pour(t, u, v, time)
       \/ \E v \in Volumes : Spill(t, v)
  \/ \E k \in Kegs :
       \/ AddKeg(k)
       \/ EndKeg(k)
       \/ ReactivateKeg(k)
       \/ CancelKeg(k)
       \/ \E full \in FullVolumes, spilled \in 0 .. MaxSpilled : EditKeg(k, full, spilled)
  \/ \E d \in DOMAIN drink : EditDrink(d)

Spec == Init /\ [][Next]_vars

-----------------------------------------------------------------------------
(* Properties *)

\* The ledger's requests leave the taps and kegs to TapRoom: the core implements
\* it, and so has every property TapRoom has.
ImplementsTapRoom == Room!RoomSpec

\* A keg that is not on tap, and was once, covers all of its drinks with its start
\* and end times (_keg_pre_save), through backdated pours, reactivations and edits.
OfflineKegSpansItsDrinks ==
  \A k \in Kegs : status[k] \in {"available", "finished"} =>
    \A d \in DrinksOfKeg(drink, k) :
      keg[k].start <= drink[d].time /\ drink[d].time <= keg[k].end

\* A keg with drinks was announced as tapped, and a keg whose row is gone has left
\* no drink, no event and no volume behind.
DrinksComeFromTappedKegs ==
  \A k \in Kegs :
    /\ DrinksOfKeg(drink, k) # {} => kegEvents[k].tapped = 1
    /\ status[k] = "absent" => /\ keg[k] = EmptyKeg
                               /\ DrinksOfKeg(drink, k) = {}
                               /\ \A e \in events : e.keg # k

=============================================================================
