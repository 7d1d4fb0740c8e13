------------------------------ MODULE TapRoom ------------------------------
(***************************************************************************)
(* Taps and the kegs connected to them (pykeg/core/models.py, KegTap and   *)
(* Keg), driven by the requests of the web API and of the admin pages.     *)
(*                                                                         *)
(* One action is one request served from start to end with no other        *)
(* request overlapping it.  The forms that run several transactions are    *)
(* the composition of them; a request that dies between two transactions   *)
(* leaves what a shorter request leaves (EndTapKeg, AddKeg), so no action  *)
(* is needed for it.  Requests that do overlap are the subject of          *)
(* RequestRace.                                                            *)
(***************************************************************************)
EXTENDS Naturals

CONSTANTS
  Taps,    \* primary keys of KegTap rows
  Kegs,    \* primary keys of Keg rows
  NoKeg    \* KegTap.current_keg is NULL

ASSUME NoKegAssumption == NoKeg \notin Kegs

VARIABLES
  taps,        \* the KegTap rows that exist
  currentKeg,  \* currentKeg[t]: the keg connected to tap t, or NoKeg
  status,      \* status[k]: Keg.status, or "absent" when there is no such row
  kegEvents    \* kegEvents[k]: number of keg_tapped and keg_ended SystemEvents

roomVars == <<taps, currentKeg, status, kegEvents>>

Status == {"absent", "available", "on_tap", "finished"}

NoEvents == [tapped |-> 0, ended |-> 0]

RoomTypeOK ==
  /\ taps \subseteq Taps
  /\ currentKeg \in [Taps -> Kegs \cup {NoKeg}]
  /\ status \in [Kegs -> Status]
  /\ kegEvents \in [Kegs -> [tapped : Nat, ended : Nat]]

RoomInit ==
  /\ taps = {}
  /\ currentKeg = [t \in Taps |-> NoKeg]
  /\ status = [k \in Kegs |-> "absent"]
  /\ kegEvents = [k \in Kegs |-> NoEvents]

-----------------------------------------------------------------------------
(* What the requests are made of. *)

IsActive(t) == currentKeg[t] # NoKeg

\* The reverse side of the one-to-one field: Keg.current_tap raises
\* KegTap.DoesNotExist.
HasNoTap(k) == \A t \in Taps : currentKeg[t] # k

\* As below, without the look for an earlier event (a mutant).
BuildEventsEachTime(ev, st) ==
  [tapped |-> ev.tapped + (IF st = "on_tap" THEN 1 ELSE 0),
   ended |-> ev.ended + (IF st = "finished" THEN 1 ELSE 0)]

\* SystemEvent.build_events_for_keg: a keg gets each of its two events once in
\* its life, whatever happens to it later.
BuildEventsForKeg(ev, st) ==
  [tapped |-> IF st = "on_tap" /\ ev.tapped = 0 THEN 1 ELSE ev.tapped,
   ended |-> IF st = "finished" /\ ev.ended = 0 THEN 1 ELSE ev.ended]

\* Keg rows are saved with these statuses, and the events of the kegs in
\* changed are built.
SaveKegs(st, changed) ==
  /\ status' = st
  /\ kegEvents' = [k \in Kegs |-> IF k \in changed
                                  THEN BuildEventsForKeg(kegEvents[k], st[k])
                                  ELSE kegEvents[k]]

-----------------------------------------------------------------------------
(* Requests *)

\* KegTap.create_tap, and the admin form for a new tap.
AddTap(t) ==
  /\ t \notin taps
  /\ taps' = taps \cup {t}
  /\ UNCHANGED <<currentKeg, status, kegEvents>>

\* DELETE /api/taps/<tap>: the row goes, the keg is not told.
ApiDeleteTap(t) ==
  /\ t \in taps
  /\ taps' = taps \ {t}
  /\ currentKeg' = [currentKeg EXCEPT ![t] = NoKeg]
  /\ UNCHANGED <<status, kegEvents>>

\* As below, ending the keg before the tap lets go of it, which end_keg's own
\* check is there to refuse (a mutant).
EndCurrentKegKeepsTap(t) ==
  /\ UNCHANGED currentKeg
  /\ SaveKegs([k \in Kegs |-> IF k = currentKeg[t] THEN "finished" ELSE status[k]],
              {currentKeg[t]})

\* As below, without end_keg (a mutant).
EndCurrentKegForgets(t) ==
  /\ currentKeg' = [currentKeg EXCEPT ![t] = NoKeg]
  /\ UNCHANGED <<status, kegEvents>>

\* KegTap.end_current_keg, which calls Keg.end_keg: nothing when the tap is idle.
EndCurrentKeg(t) ==
  /\ currentKeg' = [currentKeg EXCEPT ![t] = NoKeg]
  /\ SaveKegs([k \in Kegs |-> IF k = currentKeg[t] THEN "finished" ELSE status[k]],
              {currentKeg[t]})

\* The admin's "End Keg" on a tap's page.
EndTapKeg(t) ==
  /\ t \in taps
  /\ IsActive(t)
  /\ EndCurrentKeg(t)
  /\ UNCHANGED taps

\* The admin's "Delete Tap": the keg is ended first.
AdminDeleteTap(t) ==
  /\ t \in taps
  /\ taps' = taps \ {t}
  /\ EndCurrentKeg(t)

\* Keg.create_keg, from the form for a new keg that is not connected.
AddKeg(k) ==
  /\ status[k] = "absent"
  /\ SaveKegs([status EXCEPT ![k] = "available"], {})
  /\ UNCHANGED <<taps, currentKeg>>

\* A new keg goes on a tap, whose keg, if any, is ended: ChangeKegForm.save (end,
\* then Keg.start_keg), and KegForm.save with connect_to (create, end, attach).
ChangeKeg(t, k) ==
  /\ t \in taps
  /\ status[k] = "absent"
  /\ currentKeg' = [currentKeg EXCEPT ![t] = k]
  /\ SaveKegs([x \in Kegs |-> IF x = k THEN "on_tap"
                              ELSE IF x = currentKeg[t] THEN "finished"
                              ELSE status[x]],
              {currentKeg[t], k})

ChangeKegRequest(t, k) == ChangeKeg(t, k) /\ UNCHANGED taps

\* As below, on a database without the one-to-one constraint (a mutant).
AttachKegUnconstrained(t, k) ==
  /\ t \in taps
  /\ ~IsActive(t)
  /\ status[k] # "absent"
  /\ currentKeg' = [currentKeg EXCEPT ![t] = k]
  /\ SaveKegs([status EXCEPT ![k] = "on_tap"], {k})
  /\ UNCHANGED taps

\* KegTap.attach_keg, from the admin's choice of an existing keg.  The request
\* names any keg: the code does not ask for it to be available.  A keg that
\* another tap holds makes the save fail on the one-to-one constraint, and the
\* transaction rolls back.
AttachKeg(t, k) ==
  /\ t \in taps
  /\ ~IsActive(t)
  /\ status[k] # "absent"
  /\ HasNoTap(k)
  /\ currentKeg' = [currentKeg EXCEPT ![t] = k]
  /\ SaveKegs([status EXCEPT ![k] = "on_tap"], {k})
  /\ UNCHANGED taps

\* Keg.end_keg, from the keg's own page or POST /api/kegs/<keg>/end: refused
\* while a tap holds the keg, allowed from every status.
EndKeg(k) ==
  /\ status[k] # "absent"
  /\ HasNoTap(k)
  /\ SaveKegs([status EXCEPT ![k] = "finished"], {k})
  /\ UNCHANGED <<taps, currentKeg>>

\* As below, without the check of the status (a mutant).
ReactivateAnyKeg(k) ==
  /\ status[k] # "absent"
  /\ SaveKegs([status EXCEPT ![k] = "available"], {})
  /\ UNCHANGED <<taps, currentKeg>>

\* As below, with the status that the code's error message speaks of, "Keg must
\* be offline" (a mutant).
ReactivateToOffline(k) ==
  /\ status[k] = "finished"
  /\ SaveKegs([status EXCEPT ![k] = "offline"], {})
  /\ UNCHANGED <<taps, currentKeg>>

\* Keg.reactivate_keg.
ReactivateKeg(k) ==
  /\ status[k] = "finished"
  /\ SaveKegs([status EXCEPT ![k] = "available"], {})
  /\ UNCHANGED <<taps, currentKeg>>

\* Keg.cancel: the row, its events and the tap's reference to it are gone
\* (SET_NULL on KegTap.current_keg, CASCADE on SystemEvent.keg).
CancelKeg(k) ==
  /\ status[k] # "absent"
  /\ status' = [status EXCEPT ![k] = "absent"]
  /\ kegEvents' = [kegEvents EXCEPT ![k] = NoEvents]
  /\ currentKeg' = [t \in Taps |-> IF currentKeg[t] = k THEN NoKeg ELSE currentKeg[t]]
  /\ UNCHANGED taps

RoomNext ==
  \/ \E t \in Taps :
       \/ AddTap(t)
       \/ ApiDeleteTap(t)
       \/ AdminDeleteTap(t)
       \/ EndTapKeg(t)
       \/ \E k \in Kegs : ChangeKegRequest(t, k) \/ AttachKeg(t, k)
  \/ \E k \in Kegs :
       \/ AddKeg(k)
       \/ EndKeg(k)
       \/ ReactivateKeg(k)
       \/ CancelKeg(k)

RoomSpec == RoomInit /\ [][RoomNext]_roomVars

-----------------------------------------------------------------------------
(* Properties *)

\* Whatever sequence of requests is served, the keg a tap points at has the
\* status on_tap: pours, the status of the tap and the lists of kegs agree.
TappedKegIsOnTap ==
  \A t \in Taps : IsActive(t) => t \in taps /\ status[currentKeg[t]] = "on_tap"

\* No keg is connected to two taps, so a pour is charged to one tap's keg only.
KegOnOneTap ==
  \A t, u \in Taps : IsActive(t) /\ currentKeg[t] = currentKeg[u] => t = u

\* The log of a keg's life is complete and says each thing once: a keg on tap
\* was announced, a finished keg was declared ended, and neither event has a
\* duplicate, through any number of reactivations (build_events_for_keg).
LifeIsLoggedOnce ==
  \A k \in Kegs :
    /\ kegEvents[k].tapped <= 1 /\ kegEvents[k].ended <= 1
    /\ status[k] = "on_tap" => kegEvents[k].tapped = 1
    /\ status[k] = "finished" => kegEvents[k].ended = 1
    /\ status[k] = "absent" => kegEvents[k] = NoEvents

\* A keg on tap stops being so only by being ended or deleted: no request puts
\* a keg that may still be pouring back among the available ones.
OnTapKegOnlyEnds ==
  [][\A k \in Kegs : status[k] = "on_tap" =>
        status'[k] \in {"on_tap", "finished", "absent"}]_roomVars

\* A keg that is on tap and stays so keeps a tap, from one request to the next, unless
\* the tap itself is deleted through the API: then, and only then, it is left on_tap
\* and connected to nothing.
OnlyDeletedTapsLoseKegs ==
  [][\A k \in Kegs :
        status[k] = "on_tap" /\ status'[k] = "on_tap" /\ ~HasNoTap(k) =>
          \E t \in Taps :
            \/ currentKeg'[t] = k
            \/ currentKeg[t] = k /\ t \in taps /\ t \notin taps']_roomVars

=============================================================================
