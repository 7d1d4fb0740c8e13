----------------------------- MODULE PourLedger -----------------------------
(***************************************************************************)
(* The drinks poured, the sessions they are grouped in, the volumes kept   *)
(* on the Keg rows, and the SystemEvents written for drinks                *)
(* (pykeg/core/models.py, Drink, DrinkingSession, Keg, SystemEvent).       *)
(*                                                                         *)
(* This module holds the state and what each method of the code does to    *)
(* it; Kegbot puts the methods behind the requests and next to TapRoom.    *)
(*                                                                         *)
(* Volumes are natural numbers of one unit, the floating point of the code *)
(* is not modelled.  A session is numbered by the drink that opened it.    *)
(***************************************************************************)
EXTENDS Integers, FiniteSetsExt, VolumeSums

CONSTANTS
  Kegs,          \* primary keys of Keg rows
  NoKeg,         \* a SystemEvent that names no keg
  Users,         \* the users, the guest among them
  Volumes,       \* volumes a pour can have
  FullVolumes,   \* full volumes a keg can have
  LowThreshold,  \* LowThreshold[f]: 15% of the full volume f, rounded down
  Timeouts,      \* what KegbotSite.session_timeout_minutes may be set to
  MaxTime,       \* bound: the clock and the times of pours stay below it
  MaxDrinks,     \* bound: number of drinks ever recorded
  MaxSpilled     \* bound: spilled volume of a keg

ASSUME LedgerAssumption ==
  /\ NoKeg \notin Kegs
  /\ Volumes \subseteq Nat
  /\ FullVolumes \subseteq Nat /\ FullVolumes # {}
  /\ LowThreshold \in [FullVolumes -> Nat]
  /\ Timeouts \subseteq Nat /\ Timeouts # {}
  /\ MaxTime \in Nat
  /\ MaxDrinks \in Nat /\ MaxSpilled \in Nat

VARIABLES
  now,        \* the clock
  keg,        \* keg[k]: the volumes and times of the Keg row k
  drink,      \* drink[d]: the Drink row d; its domain is the rows that exist
  session,    \* session[s]: the DrinkingSession row s, likewise
  events,     \* the SystemEvent rows that name a drink
  lastDrink   \* primary key of the drink recorded last

ledgerVars == <<now, keg, drink, session, events, lastDrink>>

Time == 0 .. MaxTime
DrinkIds == 1 .. MaxDrinks

KegRow == [served : Int, spilled : Int, full : FullVolumes, start : Nat, end : Nat]
DrinkRow == [keg : Kegs, user : Users, volume : Volumes, time : Time, session : DrinkIds]
SessionRow == [start : Nat, end : Nat, volume : Int]
EventRow == [kind : {"session_started", "session_joined", "drink_poured", "keg_volume_low"},
             drink : DrinkIds, user : Users, session : DrinkIds, keg : Kegs \cup {NoKeg}]

LedgerTypeOK ==
  /\ now \in Time
  /\ keg \in [Kegs -> KegRow]
  /\ DOMAIN drink \subseteq DrinkIds
  /\ \A d \in DOMAIN drink : drink[d] \in DrinkRow
  /\ DOMAIN session \subseteq DrinkIds
  /\ \A s \in DOMAIN session : session[s] \in SessionRow
  /\ events \subseteq EventRow
  /\ lastDrink \in 0 .. MaxDrinks

\* What a Keg row that does not exist is represented by.
EmptyKeg == [served |-> 0, spilled |-> 0, full |-> CHOOSE f \in FullVolumes : TRUE,
             start |-> 0, end |-> 0]

LedgerInit ==
  /\ now = 0
  /\ keg = [k \in Kegs |-> EmptyKeg]
  /\ drink = << >>
  /\ session = << >>
  /\ events = {}
  /\ lastDrink = 0

-----------------------------------------------------------------------------
(* Queries, over a table D of drinks *)

DrinksOfKeg(D, k) == {d \in DOMAIN D : D[d].keg = k}
DrinksOfSession(D, s) == {d \in DOMAIN D : D[d].session = s}
TimesOf(D, ds) == {D[d].time : d \in ds}

\* Keg.remaining_volume_ml
Remaining(row) == row.full - row.served - row.spilled

Without(f, ds) == [d \in DOMAIN f \ ds |-> f[d]]

-----------------------------------------------------------------------------
(* Keg rows *)

\* Keg.create_keg: a row created now.
NewKeg(full) ==
  [served |-> 0, spilled |-> 0, full |-> full, start |-> now, end |-> now]

\* As below, for a keg that stays as it is (a mutant).
PreSaveNothing(row, D, k) == row

\* _keg_pre_save of a keg that is not on tap: its times are widened to those of
\* its drinks.
PreSave(row, D, k) ==
  LET times == TimesOf(D, DrinksOfKeg(D, k))
  IN  [row EXCEPT !.start = Min({@} \cup times), !.end = Max({@} \cup times)]

\* The row that KegTap.attach_keg saves.
AttachedRow(row) == [row EXCEPT !.start = now]

\* The row that Keg.end_keg saves.
EndedRow(k) == PreSave([keg[k] EXCEPT !.end = now], drink, k)

-----------------------------------------------------------------------------
(* Sessions.  The setting is read when a session is written, and an admin may change it *)
(* at any time: each request finds one of Timeouts.                                     *)

\* DrinkingSession.AddDrink
AddDrink(row, v, t, timeout) ==
  [start |-> Min({row.start, t}),
   end |-> Max({row.end, t + timeout}),
   volume |-> row.volume + v]

\* DrinkingSession.Rebuild of the sessions in ss: from the drinks of D that are
\* left, and the row is deleted when there are none.
Rebuild(ss, D, timeout) ==
  [s \in {x \in DOMAIN session : x \in ss => DrinksOfSession(D, x) # {}} |->
     IF s \in ss
     THEN LET ds == DrinksOfSession(D, s)
          IN  [start |-> Min(TimesOf(D, ds)),
               end |-> Max(TimesOf(D, ds)) + timeout,
               volume |-> VolumeOf(D, ds)]
     ELSE session[s]]

SessionsRebuilt(ss, D) == \E timeout \in Timeouts : session' = Rebuild(ss, D, timeout)

\* DrinkingSession.IsActive
IsActiveAt(s, t) == session[s].end > t

\* The session AssignSessionForDrink may pick for a drink at time t: the one that
\* ends last if it is still active at t, else a new one, here numbered d.
AssignedSessions(d, t) ==
  LET last == {s \in DOMAIN session : \A x \in DOMAIN session : session[x].end <= session[s].end}
      open == {s \in last : IsActiveAt(s, t)}
  IN  IF open # {} THEN open ELSE {d}

-----------------------------------------------------------------------------
(* Events *)

Event(kind, d, row, k) ==
  [kind |-> kind, drink |-> d, user |-> row.user, session |-> row.session, keg |-> k]

\* As below, never finding one (a mutant).
NeverLogged(kind, s, us) == FALSE

\* Is there an event of this kind for session s by one of the users us?
Logged(kind, s, us) ==
  \E e \in events : e.kind = kind /\ e.session = s /\ e.user \in us

\* SystemEvent.build_events_for_drink, less its call of build_events_for_keg; row
\* is the new drink and kegRow its keg's, the pour counted.
BuildEventsForDrink(d, row, kegRow) ==
  LET started == Logged("session_started", row.session, Users)
      joined == Logged("session_joined", row.session, {row.user})
      threshold == LowThreshold[kegRow.full]
      crossed == /\ Remaining(kegRow) <= threshold
                 /\ Remaining(kegRow) + row.volume > threshold
  IN  (IF started THEN {} ELSE {Event("session_started", d, row, NoKeg)})
      \cup (IF joined THEN {} ELSE {Event("session_joined", d, row, NoKeg)})
      \cup {Event("drink_poured", d, row, row.keg)}
      \cup (IF crossed THEN {Event("keg_volume_low", d, row, row.keg)} ELSE {})

-----------------------------------------------------------------------------
(* The methods of Drink and Keg *)

\* Drink.record_drink of volume v at time t by user u against keg k.
RecordDrink(k, u, v, t) ==
  LET d == lastDrink + 1
      kegRow == [keg[k] EXCEPT !.served = @ + v]
  IN  /\ d \in DrinkIds
      /\ \E s \in AssignedSessions(d, t), timeout \in Timeouts :
           LET row == [keg |-> k, user |-> u, volume |-> v, time |-> t, session |-> s]
               base == IF s = d THEN [start |-> t, end |-> t, volume |-> 0] ELSE session[s]
           IN  /\ drink' = [x \in DOMAIN drink \cup {d} |-> IF x = d THEN row ELSE drink[x]]
               /\ session' = [x \in DOMAIN session \cup {s} |->
                                IF x = s THEN AddDrink(base, v, t, timeout) ELSE session[x]]
               /\ events' = events \cup BuildEventsForDrink(d, row, kegRow)
      /\ keg' = [keg EXCEPT ![k] = kegRow]
      /\ lastDrink' = d
      /\ UNCHANGED now

\* A spill against keg k: record_drink(spilled=True), and POST /api/taps/<tap>/spill.
RecordSpill(k, v) ==
  /\ keg[k].spilled + v <= MaxSpilled
  /\ keg' = [keg EXCEPT ![k].spilled = @ + v]
  /\ UNCHANGED <<now, drink, session, events, lastDrink>>

\* As below, leaving the session alone (a mutant).
CancelDrinkNoRebuild(d, spilled) ==
  LET row == drink[d]
  IN  /\ keg' = [keg EXCEPT ![row.keg].served = @ - row.volume,
                            ![row.keg].spilled = @ + (IF spilled THEN row.volume ELSE 0)]
      /\ drink' = Without(drink, {d})
      /\ events' = {e \in events : e.drink # d}
      /\ UNCHANGED <<now, session, lastDrink>>

\* Drink.cancel_drink: the volume leaves the served total, for the spilled one if
\* asked; the row and its events are deleted and the session is rebuilt.
CancelDrink(d, spilled) ==
  LET row == drink[d]
      rest == Without(drink, {d})
  IN  /\ spilled => keg[row.keg].spilled + row.volume <= MaxSpilled
      /\ keg' = [keg EXCEPT ![row.keg].served = @ - row.volume,
                            ![row.keg].spilled = @ + (IF spilled THEN row.volume ELSE 0)]
      /\ drink' = rest
      /\ events' = {e \in events : e.drink # d}
      /\ SessionsRebuilt({row.session}, rest)
      /\ UNCHANGED <<now, lastDrink>>

\* As below, leaving the events to the previous user (a mutant).
ReassignKeepsEvents(d, u) ==
  /\ drink[d].user # u
  /\ drink' = [drink EXCEPT ![d].user = u]
  /\ UNCHANGED <<now, keg, session, events, lastDrink>>

\* Drink.reassign: the drink and every event made from it change hands.
Reassign(d, u) ==
  /\ drink[d].user # u
  /\ drink' = [drink EXCEPT ![d].user = u]
  /\ events' = {IF e.drink = d THEN [e EXCEPT !.user = u] ELSE e : e \in events}
  /\ SessionsRebuilt({drink[d].session}, drink')
  /\ UNCHANGED <<now, keg, lastDrink>>

\* As below, adding the new volume where the difference is meant (a mutant).
SetVolumeAddsAll(d, v) ==
  LET row == drink[d]
  IN  /\ row.volume # v
      /\ drink' = [drink EXCEPT ![d].volume = v]
      /\ keg' = [keg EXCEPT ![row.keg].served = @ + v]
      /\ SessionsRebuilt({row.session}, drink')
      /\ UNCHANGED <<now, events, lastDrink>>

\* Drink.set_volume
SetVolume(d, v) ==
  LET row == drink[d]
  IN  /\ row.volume # v
      /\ drink' = [drink EXCEPT ![d].volume = v]
      /\ keg' = [keg EXCEPT ![row.keg].served = @ + (v - row.volume)]
      /\ SessionsRebuilt({row.session}, drink')
      /\ UNCHANGED <<now, events, lastDrink>>

\* Keg.cancel: all the keg's drinks go, with the events that name them or the keg,
\* and every session they were in is rebuilt.
EraseKeg(k) ==
  LET gone == DrinksOfKeg(drink, k)
      rest == Without(drink, gone)
  IN  /\ keg' = [keg EXCEPT ![k] = EmptyKeg]
      /\ drink' = rest
      /\ events' = {e \in events : e.drink \notin gone /\ e.keg # k}
      /\ SessionsRebuilt({drink[d].session : d \in gone}, rest)
      /\ UNCHANGED <<now, lastDrink>>

-----------------------------------------------------------------------------
(* Properties *)

\* "Computed served volume." (Keg.served_volume_ml): the running total that pours,
\* cancellations and adjustments maintain is the sum of the keg's drinks.
ServedIsSumOfDrinks ==
  \A k \in Kegs : keg[k].served = VolumeOf(drink, DrinksOfKeg(drink, k))

\* Is row the session that the drinks ds of D make?  It ends as long after one of them as
\* the timeout was once, and no sooner than that after any.
MadeOf(row, D, ds) ==
  /\ row = [start |-> Min(TimesOf(D, ds)), end |-> row.end, volume |-> VolumeOf(D, ds)]
  /\ \E d \in ds, timeout \in Timeouts : row.end = D[d].time + timeout
  /\ \A d \in ds : \E timeout \in Timeouts : row.end >= D[d].time + timeout

\* A session is what its drinks make it: it has some, starts with the first, lasts for
\* the timeout after the last (exactly so while the setting stays the same) and adds up to
\* their volume, whether it grew drink by drink (AddDrink) or was rebuilt after a change
\* (Rebuild).
SessionsMatchDrinks ==
  /\ {drink[d].session : d \in DOMAIN drink} = DOMAIN session
  /\ \A s \in DOMAIN session : MadeOf(session[s], drink, DrinksOfSession(drink, s))

\* The events tell of the drinks as they are now: each drink has its one
\* drink_poured, no event outlives its drink, each names its drink's present owner
\* and session, and a session starts at most once.
EventsAgreeWithDrinks ==
  /\ \A d \in DOMAIN drink :
       Event("drink_poured", d, drink[d], drink[d].keg) \in events
  /\ \A e \in events :
       /\ e.drink \in DOMAIN drink
       /\ e = Event(e.kind, e.drink, drink[e.drink], e.keg)
       /\ e.keg \in {NoKeg, drink[e.drink].keg}
  /\ \A e, f \in events : e.kind = "session_started" /\ f.kind = e.kind
                          /\ e.session = f.session => e = f

=============================================================================
