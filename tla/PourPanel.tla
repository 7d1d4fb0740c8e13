----------------------------- MODULE PourPanel -----------------------------
(***************************************************************************)
(* A pour on its way from a flow meter to the cards on a wall display:     *)
(* run_kegnet_listener.py, which forwards the readings of the kegboard     *)
(* daemon, the two kinds of pour events in the displays' group, and the    *)
(* part of fullscreen-realtime.js that keeps a card per meter, with the    *)
(* carousel (slick 1.3.7) behind the cards.                                *)
(*                                                                         *)
(* The script keeps five dictionaries that it must keep in step.  Here     *)
(* they are functions whose domain is the set of their keys.  A message    *)
(* is handled when it is sent: readings come at any time anyhow, and what  *)
(* is under way when a socket closes is lost as if it had been sent later. *)
(***************************************************************************)
EXTENDS Integers, Sequences, SequencesExt

CONSTANTS
  Meters,      \* canonical names of the flow meters
  MaxReading,  \* MaxReading[m]: bound on the reading of meter m
  Rates        \* Rates[m]: what m may come to count as per tick, 0 if it is not known

ASSUME MaxReadingAssumption == MaxReading \in [Meters -> Nat]
ASSUME RatesAssumption == Rates \in [Meters -> SUBSET Nat]

VARIABLES
  reading,        \* reading[m]: the ticks that meter m has counted
  rate,           \* rate[m]: volume per tick (1 / FlowMeter.ticks_per_ml) in the database
  tapInfo,        \* _tap_info_cache: volume per tick of the meters looked up so far
  throttled,      \* meters with a broadcast less than BROADCAST_INTERVAL ago
  connected,      \* the page's socket is in the group
  pourOrder,      \* meters that have a card, in the order of their start
  currentPours,   \* latest volume received per meter
  pourBaselines,  \* volume received first
  pourSettled,    \* whether flow has stopped
  settleTimers,   \* meters whose settle timer is running
  updateTimers,   \* meters whose update timer is running
  panel,          \* what renderPourPanel has drawn
  carousel,       \* the slider behind the panel
  began           \* began[m]: how the card began (history, no part of the code)

listenerVars == <<reading, rate, tapInfo, throttled>>
pourVars == <<pourOrder, currentPours, pourBaselines, pourSettled, settleTimers, updateTimers>>
pageVars == <<pourVars, panel, carousel, began>>
vars == <<listenerVars, connected, pageVars>>

Put(f, m, v) == [x \in DOMAIN f \cup {m} |-> IF x = m THEN v ELSE f[x]]
Without(f, m) == Restrict(f, DOMAIN f \ {m})
Nothing == [x \in {} |-> 0]

\* The slider that $('.tap-carousel').slick({...}) builds when the page is ready.
\* It has several pages of taps, or there would be nothing to turn.
FreshCarousel == [timer |-> TRUE, paused |-> FALSE, animating |-> FALSE, built |-> TRUE]

Init ==
  /\ reading = [m \in Meters |-> 0]
  /\ rate \in {f \in [Meters -> UNION Range(Rates)] : \A m \in Meters : f[m] \in Rates[m]}
  /\ tapInfo = Nothing
  /\ throttled = {}
  /\ connected = FALSE
  /\ pourOrder = <<>>
  /\ currentPours = Nothing
  /\ pourBaselines = Nothing
  /\ pourSettled = Nothing
  /\ settleTimers = {}
  /\ updateTimers = {}
  /\ panel = <<>>
  /\ carousel = FreshCarousel
  /\ began = Nothing

-----------------------------------------------------------------------------
(* Drawing *)

\* As below, with both methods understood as "pause" (a mutant).
SlickPauses(method) == [carousel EXCEPT !.timer = FALSE, !.paused = TRUE]

\* window.slickCarousel.slick('slickPause'), .slick('slickPlay').  In slick 1.3.7
\* $.fn.slick takes any argument for options: it puts a new Slick object behind the
\* element, which finds the slider built already and does nothing.  The object that
\* was built first keeps its interval and is no longer reachable.
Slick(method) == [carousel EXCEPT !.built = FALSE]

Card(m, data, baselines, settled) ==
  [tap |-> m,
   volume |-> data[m] - (IF m \in DOMAIN baselines THEN baselines[m] ELSE 0),
   poured |-> m \in DOMAIN settled /\ settled[m]]

\* A meter in the order without data is passed over.
NoCard == [tap |-> "none", volume |-> 0, poured |-> FALSE]

Cards(order, data, baselines, settled) ==
  [i \in 1 .. Len(order) |->
     IF order[i] \in DOMAIN data THEN Card(order[i], data, baselines, settled)
     ELSE NoCard]

\* The end of every handler.
renderPourPanel ==
  /\ panel' = Cards(pourOrder', currentPours', pourBaselines', pourSettled')
  /\ carousel' = Slick(IF pourOrder' = <<>> THEN "slickPlay" ELSE "slickPause")

-----------------------------------------------------------------------------
(* Handlers of the script *)

handlePourUpdate(m, volume) ==
  /\ IF m \in Range(pourOrder)
     THEN UNCHANGED <<pourOrder, pourBaselines>>
     ELSE /\ pourOrder' = Append(pourOrder, m)
          /\ pourBaselines' = Put(pourBaselines, m, volume)
  /\ currentPours' = Put(currentPours, m, volume)
  /\ pourSettled' = Put(pourSettled, m, FALSE)
  /\ settleTimers' = settleTimers \cup {m}
  /\ updateTimers' = updateTimers \cup {m}
  /\ renderPourPanel

\* As below, taking the update timer down as well (a mutant).
handlePourEndedClears(m) ==
  /\ settleTimers' = settleTimers \ {m}
  /\ updateTimers' = updateTimers \ {m}
  /\ pourSettled' = Put(pourSettled, m, TRUE)
  /\ UNCHANGED <<pourOrder, currentPours, pourBaselines>>
  /\ renderPourPanel

\* The card stays up for the rest of its update timer.
handlePourEnded(m) ==
  /\ settleTimers' = settleTimers \ {m}
  /\ pourSettled' = Put(pourSettled, m, TRUE)
  /\ UNCHANGED <<pourOrder, currentPours, pourBaselines, updateTimers>>
  /\ renderPourPanel

\* As below, keeping the baseline for the next pour (a mutant).
removePourKeepsBaseline(m) ==
  /\ pourOrder' = RemoveFirst(pourOrder, m)
  /\ settleTimers' = settleTimers \ {m}
  /\ updateTimers' = updateTimers \ {m}
  /\ currentPours' = Without(currentPours, m)
  /\ UNCHANGED pourBaselines
  /\ pourSettled' = Without(pourSettled, m)
  /\ renderPourPanel

removePour(m) ==
  /\ pourOrder' = RemoveFirst(pourOrder, m)
  /\ settleTimers' = settleTimers \ {m}
  /\ updateTimers' = updateTimers \ {m}
  /\ currentPours' = Without(currentPours, m)
  /\ pourBaselines' = Without(pourBaselines, m)
  /\ pourSettled' = Without(pourSettled, m)
  /\ renderPourPanel

SettleTimeout(m) ==
  /\ m \in settleTimers
  /\ settleTimers' = settleTimers \ {m}
  /\ pourSettled' = Put(pourSettled, m, TRUE)
  /\ UNCHANGED <<pourOrder, currentPours, pourBaselines, updateTimers>>
  /\ renderPourPanel
  /\ UNCHANGED <<listenerVars, connected, began>>

\* As below, with timers that fire in any order (a mutant).
UpdateTimeoutAnyTime(m) ==
  /\ m \in updateTimers
  /\ removePour(m)
  /\ began' = Without(began, m)
  /\ UNCHANGED <<listenerVars, connected>>

\* The two timers of a meter are set together and this one is twenty times as long.
UpdateTimeout(m) ==
  /\ m \in updateTimers \ settleTimers
  /\ removePour(m)
  /\ began' = Without(began, m)
  /\ UNCHANGED <<listenerVars, connected>>

-----------------------------------------------------------------------------
(* The listener *)

\* The daemon publishes the meter's reading.
Reads(m) ==
  /\ reading[m] < MaxReading[m]
  /\ reading' = [reading EXCEPT ![m] = @ + 1]
  /\ UNCHANGED rate

\* _get_tap_info: a mapping that has been found is used for TAP_INFO_TTL without asking
\* the database, and after that for as long as the database cannot be asked, which is the
\* same to those who use it.  A meter that is not in the database is a mapping, too.
LooksUp(m, asked) == tapInfo' = IF asked THEN Put(tapInfo, m, rate[m]) ELSE tapInfo

\* Neither a database nor a mapping.
Blind(m, asked) == ~asked /\ m \notin DOMAIN tapInfo

\* As below, without falling back on a mapping that has expired (a mutant).
RateUncached(m, asked) == IF asked THEN rate[m] ELSE 0

RateUsed(m, asked) ==
  IF asked THEN rate[m] ELSE IF m \in DOMAIN tapInfo THEN tapInfo[m] ELSE 0

VolumeOf(m, asked) == reading'[m] * RateUsed(m, asked)

\* A reading too soon after the last one that was sent.
ReadingThrottled(m) ==
  /\ m \in throttled
  /\ Reads(m)
  /\ UNCHANGED <<tapInfo, throttled, connected, pageVars>>

\* group_send fails.
ReadingUnsent(m, asked) ==
  /\ m \notin throttled
  /\ Reads(m)
  /\ LooksUp(m, asked)
  /\ UNCHANGED <<throttled, connected, pageVars>>

ReadingSent(m, asked) ==
  /\ m \notin throttled
  /\ Reads(m)
  /\ LooksUp(m, asked)
  /\ throttled' = throttled \cup {m}
  /\ UNCHANGED connected
  /\ IF connected
     THEN /\ handlePourUpdate(m, VolumeOf(m, asked))
          /\ began' = Put(began, m,
               IF m \in Range(pourOrder)
               THEN [began[m] EXCEPT !.blind = Blind(m, asked)]
               ELSE [at |-> reading'[m], sure |-> RateUsed(m, asked) = rate[m],
                     blind |-> Blind(m, asked)])
     ELSE UNCHANGED pageVars

ThrottleEnds(m) ==
  /\ m \in throttled
  /\ throttled' = throttled \ {m}
  /\ UNCHANGED <<reading, rate, tapInfo, connected, pageVars>>

ListenerRestarts ==
  /\ tapInfo' = Nothing
  /\ throttled' = {}
  /\ UNCHANGED <<reading, rate, connected, pageVars>>

\* tap_calibrate, and the pages of meters: the rate is another, or the meter comes or goes.
\* The listener is not told.
Calibrate(m) ==
  /\ \E r \in Rates[m] \ {rate[m]} : rate' = [rate EXCEPT ![m] = r]
  /\ began' = [x \in DOMAIN began |->
                 IF x = m THEN [began[x] EXCEPT !.sure = FALSE] ELSE began[x]]
  /\ UNCHANGED <<reading, tapInfo, throttled, connected, pourVars, panel, carousel>>

\* POST /api/taps/<meter>: on_pour_in_progress sends nothing but pour_ended.
PourRecorded(m) ==
  /\ connected
  /\ handlePourEnded(m)
  /\ UNCHANGED <<listenerVars, connected, began>>

-----------------------------------------------------------------------------
(* The page and its socket *)

SocketOpens ==
  /\ ~connected
  /\ connected' = TRUE
  /\ UNCHANGED <<listenerVars, pageVars>>

SocketCloses ==
  /\ connected
  /\ connected' = FALSE
  /\ UNCHANGED <<listenerVars, pageVars>>

\* location.reload, by the script or by hand.
PageReload ==
  /\ connected' = FALSE
  /\ pourOrder' = <<>>
  /\ currentPours' = Nothing
  /\ pourBaselines' = Nothing
  /\ pourSettled' = Nothing
  /\ settleTimers' = {}
  /\ updateTimers' = {}
  /\ panel' = <<>>
  /\ carousel' = FreshCarousel
  /\ began' = Nothing
  /\ UNCHANGED listenerVars

-----------------------------------------------------------------------------
(* The carousel *)

\* autoPlay: an interval, unless paused.
AutoPlay(c) == [c EXCEPT !.timer = ~c.paused]

\* autoPlayIterator, slideHandler: the interval ends while the slide moves.
CarouselTurns ==
  /\ carousel.timer
  /\ ~carousel.animating
  /\ carousel' = [carousel EXCEPT !.timer = FALSE, !.animating = TRUE]
  /\ UNCHANGED <<listenerVars, connected, pourVars, panel, began>>

\* postSlide
SlideEnds ==
  /\ carousel.animating
  /\ carousel' = IF carousel.paused THEN [carousel EXCEPT !.animating = FALSE]
                 ELSE AutoPlay([carousel EXCEPT !.animating = FALSE])
  /\ UNCHANGED <<listenerVars, connected, pourVars, panel, began>>

-----------------------------------------------------------------------------

Next ==
  \/ \E m \in Meters :
       \/ ReadingThrottled(m)
       \/ \E asked \in BOOLEAN : ReadingUnsent(m, asked) \/ ReadingSent(m, asked)
       \/ ThrottleEnds(m)
       \/ Calibrate(m)
       \/ PourRecorded(m)
       \/ SettleTimeout(m)
       \/ UpdateTimeout(m)
  \/ ListenerRestarts
  \/ SocketOpens
  \/ SocketCloses
  \/ PageReload
  \/ CarouselTurns
  \/ SlideEnds

\* The timers of a browser fire.  Nothing is assumed of meters, listener and sockets.
Fairness ==
  /\ \A m \in Meters : WF_vars(SettleTimeout(m)) /\ WF_vars(UpdateTimeout(m))
  /\ WF_vars(CarouselTurns) /\ WF_vars(SlideEnds)

Spec == Init /\ [][Next]_vars /\ Fairness

-----------------------------------------------------------------------------
(* Properties *)

\* The script's dictionaries and timers never drift apart, however pours, timeouts
\* and ends of pours on several meters follow one another: a card has its data, its
\* baseline and a running update timer, one that says "Pouring" a running settle
\* timer, nothing is left of a card that has gone but a harmless "settled", and the
\* panel shows exactly the cards.
CardsInStep ==
  /\ IsInjective(pourOrder)
  /\ Range(pourOrder) \subseteq Meters
  /\ DOMAIN currentPours = Range(pourOrder)
  /\ DOMAIN pourBaselines = Range(pourOrder)
  /\ updateTimers = Range(pourOrder)
  /\ Range(pourOrder) \subseteq DOMAIN pourSettled
  /\ settleTimers = {m \in DOMAIN pourSettled : ~pourSettled[m]}
  /\ settleTimers \subseteq Range(pourOrder)
  /\ panel = Cards(pourOrder, currentPours, pourBaselines, pourSettled)
  /\ \A i \in DOMAIN panel : panel[i].tap = pourOrder[i]

\* A card shows some of what has flowed through its meter since it appeared, and never
\* more or less than nothing, though readings are dropped by the throttle, by failing sends
\* and by closed sockets, are converted by a mapping from a cache, and the listener and the
\* database come and go.  The exceptions are a meter that was calibrated, added or
\* removed since the listener last looked it up before the card (until the card goes), and a
\* latest reading that met neither a database nor a mapping (until the next).
CardShowsItsPour ==
  \A i \in DOMAIN panel :
    LET m == panel[i].tap
    IN  began[m].sure /\ ~began[m].blind =>
          /\ 0 <= panel[i].volume
          /\ panel[i].volume <= (reading[m] - began[m].at) * rate[m]

\* The panel implements the stack of cards of PourCards.
Stack ==
  INSTANCE PourCards WITH
    shown <- [i \in DOMAIN panel |-> panel[i].tap],
    poured <- {panel[i].tap : i \in {j \in DOMAIN panel : panel[j].poured}}

ImplementsPourCards == Stack!CardsSpec

\* Every card goes in the end: no order of updates, ends and timeouts strands one.
CardsGo == \A m \in Meters : m \in Range(pourOrder) ~> m \notin Range(pourOrder)

\* The calls that renderPourPanel makes on the carousel never stop it for good.
CarouselKeepsTurning == []<>carousel.animating

\* "Pauses the carousel while any pour is active" (fullscreen-realtime.js:4).
CarouselRests == [][~carousel.animating /\ carousel'.animating => pourOrder = <<>>]_vars

=============================================================================
