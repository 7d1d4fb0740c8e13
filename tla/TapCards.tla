------------------------------ MODULE TapCards ------------------------------
(***************************************************************************)
(* The tap cards of a wall display, and how they follow taps and kegs.     *)
(* The page is rendered with a card per tap: beer and volume.  Afterwards  *)
(* volumes are pushed to it ("tap_state"), and a change of kegs makes it   *)
(* reload.  The pushes come from request processes, from inside the        *)
(* transactions they report about; they go through a channel layer that    *)
(* keeps the group of connected displays, and nothing is kept for a        *)
(* display that is not connected.                                          *)
(*                                                                         *)
(* Requests lock the row of the keg they write until they end.  What two   *)
(* overlapping requests do to one volume is the subject of RequestRace:    *)
(* here a volume is read and written in one step.  Messages are delivered  *)
(* in order.                                                               *)
(***************************************************************************)
EXTENDS Integers, Sequences, SequencesExt

CONSTANTS
  Taps, Kegs, NoKeg,
  Requests,      \* slots for requests under way at the same time
  FirstKeg,      \* FirstKeg[t]: the keg of tap t at first, or NoKeg
  Full,          \* the volume of a full keg, in glasses
  MaxChanges,    \* bound on pours, changes of kegs and edits
  MaxInbox,      \* bound on messages on their way to the page
  MaxFaults      \* bound on closed sockets, failing sends and saved settings

ASSUME TapCardsAssumption ==
  /\ NoKeg \notin Kegs
  /\ FirstKeg \in [Taps -> Kegs \cup {NoKeg}]
  /\ Full \in Nat /\ MaxChanges \in Nat /\ MaxInbox \in Nat /\ MaxFaults \in Nat

VARIABLES
  tapKeg,      \* KegTap.current_keg, as committed
  left,        \* remaining_volume_ml of each keg, as committed
  request,     \* what each request is at
  page,        \* "rendered", "joined", "live" (it has its first tap_state), "closed"
  inGroup,     \* the page's channel is in the group fullscreen_pours
  inbox,       \* messages on their way to the page
  shownKeg,    \* the keg each card was rendered for
  shownLeft,   \* the volume each card shows
  lastEvent,   \* the poll's: "none", "latest", or "older" than the latest event
  changes, faults,  \* for the bounds
  amiss,       \* a push was lost, or overlapped another change (history)
  unheard      \* a change of kegs did not reach the page (history)

dbVars == <<tapKeg, left>>
cardVars == <<shownKeg, shownLeft>>
displayVars == <<page, inGroup, inbox, cardVars, lastEvent>>
allVars == <<dbVars, request, displayVars, changes, faults, amiss, unheard>>

Nobody == [phase |-> "idle"]

Idle(r) == request[r] = Nobody
AllIdle == \A r \in Requests : Idle(r)
OthersIdle(r) == \A q \in Requests \ {r} : Idle(q)

Writing(r) == request[r].phase \in {"poured", "built", "pushed"}
Locked(k) == \E r \in Requests : Writing(r) /\ request[r].keg = k

Least(v) == IF v < 0 THEN 0 ELSE v

\* build_tap_state_payload, for one who sees these volumes.
Payload(volumes) ==
  [t \in {u \in Taps : tapKeg[u] # NoKeg} |-> Least(volumes[tapKeg[t]])]

TapState(payload) == [event_type |-> "tap_state", taps |-> payload]
Reload == [event_type |-> "reload"]

IsReload(message) == message.event_type = "reload"
ReloadUnder(messages) == \E i \in DOMAIN messages : IsReload(messages[i])

\* The template, for the cards and their volumes.
RenderedLeft == [t \in Taps |-> IF tapKeg[t] = NoKeg THEN 0 ELSE Least(left[tapKeg[t]])]

CardsInit ==
  /\ tapKeg = FirstKeg
  /\ left = [k \in Kegs |-> Full]
  /\ request = [r \in Requests |-> Nobody]
  /\ page = "rendered"
  /\ inGroup = FALSE
  /\ inbox = <<>>
  /\ shownKeg = tapKeg
  /\ shownLeft = RenderedLeft
  /\ lastEvent = "none"
  /\ changes = 0
  /\ faults = 0
  /\ amiss = FALSE
  /\ unheard = FALSE

Counted == changes < MaxChanges /\ changes' = changes + 1
EventLogged == lastEvent' = IF lastEvent = "none" THEN "none" ELSE "older"

-----------------------------------------------------------------------------
(* The channel layer: group_send, with whatever exception is swallowed *)

Deliver(message) ==
  IF inGroup /\ Len(inbox) < MaxInbox THEN Append(inbox, message) ELSE inbox

CanDeliver == inGroup => Len(inbox) < MaxInbox

-----------------------------------------------------------------------------
(* Requests *)

\* record_drink, up to the signal drink_recorded.
Pour(r, t) ==
  /\ Idle(r)
  /\ tapKeg[t] # NoKeg
  /\ ~Locked(tapKeg[t])
  /\ Counted
  /\ request' = [request EXCEPT ![r] = [phase |-> "poured", keg |-> tapKeg[t]]]
  /\ amiss' = (amiss \/ ~AllIdle)
  /\ UNCHANGED <<dbVars, displayVars, faults, unheard>>

\* A transaction sees its own writes.
SeenBy(r) ==
  IF Writing(r) THEN [left EXCEPT ![request[r].keg] = @ - 1] ELSE left

\* As below, before the keg is saved (a mutant).
BuildPayloadBeforeSave(r) ==
  /\ request[r].phase = "poured"
  /\ request' = [request EXCEPT ![r] =
       [phase |-> "built", keg |-> request[r].keg, payload |-> Payload(left)]]
  /\ UNCHANGED <<dbVars, displayVars, changes, faults, amiss, unheard>>

\* _push_tap_state builds the message first ...
BuildPayload(r) ==
  /\ request[r].phase = "poured"
  /\ request' = [request EXCEPT ![r] =
       [phase |-> "built", keg |-> request[r].keg, payload |-> Payload(SeenBy(r))]]
  /\ UNCHANGED <<dbVars, displayVars, changes, faults, amiss, unheard>>

\* ... for a reading of a temperature too, throttled to one in 30 seconds ...
Temperature(r) ==
  /\ Idle(r)
  /\ request' = [request EXCEPT ![r] = [phase |-> "measured", payload |-> Payload(SeenBy(r))]]
  /\ amiss' = (amiss \/ ~AllIdle)
  /\ UNCHANGED <<dbVars, displayVars, changes, faults, unheard>>

\* ... and then sends it.  A message with the latest volumes makes up for others.
SendPayload(r) ==
  /\ request[r].phase \in {"built", "measured"}
  /\ CanDeliver
  /\ inbox' = Deliver(TapState(request[r].payload))
  /\ amiss' = IF inGroup /\ OthersIdle(r) /\ request[r].payload = Payload(SeenBy(r))
              THEN FALSE ELSE amiss
  /\ request' = [request EXCEPT ![r] =
       IF Writing(r) THEN [phase |-> "pushed", keg |-> request[r].keg] ELSE Nobody]
  /\ UNCHANGED <<dbVars, page, inGroup, cardVars, lastEvent, changes, faults, unheard>>

SendFails(r) ==
  /\ request[r].phase \in {"built", "measured"}
  /\ faults < MaxFaults
  /\ faults' = faults + 1
  /\ amiss' = TRUE
  /\ request' = [request EXCEPT ![r] =
       IF Writing(r) THEN [phase |-> "pushed", keg |-> request[r].keg] ELSE Nobody]
  /\ UNCHANGED <<dbVars, displayVars, changes, unheard>>

CommitPour(r) ==
  /\ request[r].phase = "pushed"
  /\ left' = SeenBy(r)
  /\ EventLogged
  /\ request' = [request EXCEPT ![r] = Nobody]
  /\ UNCHANGED <<tapKeg, page, inGroup, inbox, cardVars, changes, faults, amiss, unheard>>

\* The push, if there was one, has told of a drink that is not recorded.
RollBackPour(r) ==
  /\ Writing(r)
  /\ request' = [request EXCEPT ![r] = Nobody]
  /\ amiss' = TRUE
  /\ UNCHANGED <<dbVars, displayVars, changes, faults, unheard>>

\* When a tap may get or lose its keg.
Changeable(t, k) ==
  /\ (tapKeg[t] = NoKeg) # (k = NoKeg)
  /\ k # NoKeg => k \notin {tapKeg[u] : u \in Taps} /\ ~Locked(k)
  /\ tapKeg[t] # NoKeg => ~Locked(tapKeg[t])

\* As below, with no receiver for keg_ended (a mutant).
ChangeKegAttachOnly(r, t, k) ==
  /\ Idle(r)
  /\ Changeable(t, k)
  /\ Counted
  /\ tapKeg' = [tapKeg EXCEPT ![t] = k]
  /\ EventLogged
  /\ request' = IF k = NoKeg THEN request ELSE [request EXCEPT ![r] = [phase |-> "changed"]]
  /\ amiss' = (amiss \/ ~AllIdle)
  /\ UNCHANGED <<left, page, inGroup, inbox, cardVars, faults, unheard>>

\* end_current_keg and attach_keg, on commit; the reload is sent afterwards.
ChangeKeg(r, t, k) ==
  /\ Idle(r)
  /\ Changeable(t, k)
  /\ Counted
  /\ tapKeg' = [tapKeg EXCEPT ![t] = k]
  /\ EventLogged
  /\ request' = [request EXCEPT ![r] = [phase |-> "changed"]]
  /\ amiss' = (amiss \/ ~AllIdle)
  /\ UNCHANGED <<left, page, inGroup, inbox, cardVars, faults, unheard>>

\* _broadcast_fullscreen_reload
Broadcast(r) ==
  /\ request[r].phase = "changed"
  /\ CanDeliver
  /\ inbox' = Deliver(Reload)
  /\ unheard' = (unheard \/ ~inGroup)
  /\ request' = [request EXCEPT ![r] = Nobody]
  /\ UNCHANGED <<dbVars, page, inGroup, cardVars, lastEvent, changes, faults, amiss>>

BroadcastFails(r) ==
  /\ request[r].phase = "changed"
  /\ faults < MaxFaults
  /\ faults' = faults + 1
  /\ amiss' = TRUE
  /\ unheard' = TRUE
  /\ request' = [request EXCEPT ![r] = Nobody]
  /\ UNCHANGED <<dbVars, displayVars, changes>>

\* tap_detail (API, DELETE) and Keg.cancel tell no display that a tap has lost its keg.
LoseKeg(t) ==
  /\ tapKeg[t] # NoKeg
  /\ ~Locked(tapKeg[t])
  /\ Counted
  /\ tapKeg' = [tapKeg EXCEPT ![t] = NoKeg]
  /\ amiss' = TRUE
  /\ unheard' = TRUE
  /\ UNCHANGED <<left, request, displayVars, faults>>

\* Spills, cancelled and adjusted drinks and edited kegs push nothing.
EditVolume(k, v) ==
  /\ ~Locked(k)
  /\ v \in {left[k] - 1, left[k] + 1} /\ v <= Full
  /\ Counted
  /\ left' = [left EXCEPT ![k] = v]
  /\ amiss' = TRUE
  /\ UNCHANGED <<tapKeg, request, displayVars, faults, unheard>>

\* Saving the site's settings clears the cache, and with it the Redis database in
\* which the channel layer keeps its groups and queues.  The sockets stay open.
\* (channels_redis drops a member by itself as well, a day after it joined: group_expiry.
\* The display is then in the same state, but for messages already on their way.)
SaveSettings ==
  /\ faults < MaxFaults
  /\ faults' = faults + 1
  /\ inGroup' = FALSE
  /\ inbox' = <<>>
  /\ amiss' = TRUE
  /\ unheard' = (unheard \/ ReloadUnder(inbox))
  /\ UNCHANGED <<dbVars, request, page, cardVars, lastEvent, changes>>

-----------------------------------------------------------------------------
(* The page *)

\* GET /fullscreen, first or by location.reload.
Load ==
  /\ page' = "rendered"
  /\ inGroup' = FALSE
  /\ inbox' = <<>>
  /\ shownKeg' = tapKeg
  /\ shownLeft' = RenderedLeft
  /\ lastEvent' = "none"
  /\ unheard' = FALSE
  /\ UNCHANGED <<dbVars, request, changes, faults, amiss>>

\* As below, without connecting again (a mutant).
JoinOnce ==
  /\ page = "rendered"
  /\ page' = "joined"
  /\ inGroup' = TRUE
  /\ UNCHANGED <<dbVars, request, inbox, cardVars, lastEvent, changes, faults, amiss, unheard>>

\* FullscreenConsumer.connect: into the group, then accept ...
Join ==
  /\ page \in {"rendered", "closed"}
  /\ page' = "joined"
  /\ inGroup' = TRUE
  /\ UNCHANGED <<dbVars, request, inbox, cardVars, lastEvent, changes, faults, amiss, unheard>>

\* handleTapState: a tap that the page has no card for is passed over.
Updated(payload) ==
  [t \in Taps |-> IF t \in DOMAIN payload /\ shownKeg[t] # NoKeg THEN payload[t] ELSE shownLeft[t]]

\* ... then the state of the taps, before any message of the group is handled.
\* It makes up for what was missed unless it overlaps a change or comes before
\* messages that are older.
SendInitial ==
  /\ page = "joined"
  /\ page' = "live"
  /\ shownLeft' = Updated(Payload(left))
  /\ amiss' = IF AllIdle /\ inbox = <<>> /\ inGroup THEN FALSE ELSE TRUE
  /\ UNCHANGED <<dbVars, request, inGroup, inbox, shownKeg, lastEvent, changes, faults, unheard>>

ReceiveTapState ==
  /\ page = "live"
  /\ inbox # <<>>
  /\ ~IsReload(Head(inbox))
  /\ shownLeft' = Updated(Head(inbox).taps)
  /\ inbox' = Tail(inbox)
  /\ UNCHANGED <<dbVars, request, page, inGroup, shownKeg, lastEvent, changes, faults, amiss, unheard>>

ReceiveReload ==
  /\ page = "live"
  /\ inbox # <<>>
  /\ IsReload(Head(inbox))
  /\ Load

CardsSocketCloses ==
  /\ page \in {"joined", "live"}
  /\ faults < MaxFaults
  /\ faults' = faults + 1
  /\ page' = "closed"
  /\ inGroup' = FALSE
  /\ inbox' = <<>>
  /\ unheard' = (unheard \/ ReloadUnder(inbox))
  /\ UNCHANGED <<dbVars, request, cardVars, lastEvent, changes, amiss>>

\* fetchEvents.  A new event reloads the page only while there is no open socket.
PollIsFresh ==
  /\ lastEvent # "latest"
  /\ lastEvent = "none" \/ page \in {"joined", "live"}
  /\ lastEvent' = "latest"
  /\ UNCHANGED <<dbVars, request, page, inGroup, inbox, cardVars, changes, faults, amiss, unheard>>

PollReloads ==
  /\ lastEvent = "older"
  /\ page \notin {"joined", "live"}
  /\ Load

-----------------------------------------------------------------------------

CardsNext ==
  \/ \E r \in Requests :
       \/ \E t \in Taps : Pour(r, t) \/ (\E k \in Kegs \cup {NoKeg} : ChangeKeg(r, t, k))
       \/ BuildPayload(r) \/ Temperature(r) \/ SendPayload(r) \/ SendFails(r)
       \/ CommitPour(r) \/ RollBackPour(r)
       \/ Broadcast(r) \/ BroadcastFails(r)
  \/ \E t \in Taps : LoseKeg(t)
  \/ \E k \in Kegs, v \in -1 .. Full : EditVolume(k, v)
  \/ SaveSettings
  \/ Join \/ SendInitial
  \/ ReceiveTapState \/ ReceiveReload
  \/ CardsSocketCloses
  \/ PollIsFresh \/ PollReloads

\* Requests go on to their end, some sensor is read for ever, the page connects again
\* and again and handles what it gets.  Nobody need poll, pour or close anything.
CardsFairness ==
  /\ \A r \in Requests :
       /\ WF_allVars(BuildPayload(r)) /\ WF_allVars(SendPayload(r)) /\ WF_allVars(CommitPour(r))
       /\ WF_allVars(Broadcast(r))
  /\ WF_allVars(\E r \in Requests : Temperature(r))
  /\ WF_allVars(Join) /\ WF_allVars(SendInitial)
  /\ WF_allVars(ReceiveTapState) /\ WF_allVars(ReceiveReload)

CardsSpec == CardsInit /\ [][CardsNext]_allVars /\ CardsFairness

-----------------------------------------------------------------------------
(* Properties *)

Payloads == UNION {[D -> 0 .. Full] : D \in SUBSET Taps}

Messages == [event_type : {"tap_state"}, taps : Payloads] \cup [event_type : {"reload"}]

RequestStates ==
  {Nobody} \cup [phase : {"changed"}] \cup [phase : {"poured", "pushed"}, keg : Kegs]
    \cup [phase : {"built"}, keg : Kegs, payload : Payloads]
    \cup [phase : {"measured"}, payload : Payloads]

\* Types, and that no two taps share a keg and no two open transactions a row.
TypeOK ==
  /\ tapKeg \in [Taps -> Kegs \cup {NoKeg}]
  /\ left \in [Kegs -> Int]
  /\ request \in [Requests -> RequestStates]
  /\ page \in {"rendered", "joined", "live", "closed"}
  /\ inGroup \in BOOLEAN
  /\ inbox \in Seq(Messages)
  /\ shownKeg \in [Taps -> Kegs \cup {NoKeg}]
  /\ shownLeft \in [Taps -> 0 .. Full]
  /\ lastEvent \in {"none", "latest", "older"}
  /\ changes \in 0 .. MaxChanges /\ faults \in 0 .. MaxFaults
  /\ amiss \in BOOLEAN /\ unheard \in BOOLEAN

Settled == page = "live" /\ inbox = <<>> /\ AllIdle

Right(t) == shownLeft[t] = Least(left[tapKeg[t]])

\* A connected display that has handled its messages shows, on the card of every tap,
\* what is left in the tap's keg, unless a push about it was lost, was taken back, was
\* never made (spills, edits), or overlapped another request since the last good one:
\* the initial state and pushes from inside open transactions leave no other gap.
VolumesCatchUp ==
  Settled /\ ~amiss =>
    \A t \in Taps : tapKeg[t] # NoKeg /\ shownKeg[t] = tapKeg[t] => Right(t)

\* A connected display that has handled its messages has a card for the keg of each
\* tap and for no other, unless a change came about with nobody to tell it.
KegsCatchUp == Settled /\ ~unheard => shownKeg = tapKeg

\* However pushes overlap, fail and are rolled back: once taps are left in peace, a
\* display is connected for good and its volumes come right and stay right.  Readings
\* of a temperature see to that.  The exception is a display whose membership in the
\* group went with the cache (SaveSettings) or has expired: its socket stays open and silent.
DisplayHeals ==
  <>[](page = "live" /\ (inGroup =>
         \A t \in Taps : tapKeg[t] # NoKeg /\ shownKeg[t] # NoKeg => Right(t)))

\* "Auto-reload on new events only when the WebSocket is down (it handles updates
\* otherwise)" (fullscreen_realtime.html:105): a display that is connected, has handled
\* its messages and knows the latest event shows the kegs that are on tap.
KegsAreCurrent == Settled /\ lastEvent = "latest" => shownKeg = tapKeg

=============================================================================
