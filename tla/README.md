# Kegbot server in TLA+

Kegbot records what is poured from the taps of a bar: a flow meter reports ticks,
the server turns them into a drink of a user, charges the drink to the keg on the tap,
groups drinks into sessions, logs events, updates statistics and shows all of it on
web pages and wall displays. This directory specifies what must not get confused in it:
which keg is on which tap, which drinks there are, whether everything computed from the
drinks still agrees with them when requests overlap, whether the displays show it, how a
device is paired with the server, and whether the processes of the server go down together.

Paths are relative to `src/pykeg`. Line numbers per definition are in
`PROJECT.json` ("map"), the disagreements found in "findings", everything that is hard
to test in "hazards".

## 1. Inventory

### The system's parts

| Part | Code | State it keeps | Operations |
|---|---|---|---|
| Taps and kegs | `core/models.py` KegTap, Keg; `web/kegadmin`, `web/api/views.py` | KegTap rows (`current_keg`, one-to-one), Keg rows (`status`, volumes, times) | create and delete a tap; create, attach, change, end, reactivate, delete a keg |
| Drinks | `core/models.py` Drink | Drink rows; the keg's `served_volume_ml`, `spilled_ml` | `record_drink`, `cancel_drink`, `reassign`, `set_volume`, spill |
| Sessions | `core/models.py` DrinkingSession | start, end, volume of each session | `AssignSessionForDrink`, `AddDrink`, `Rebuild` |
| Events | `core/models.py` SystemEvent | the log that notifications and plugins read | `build_events_for_keg`, `build_events_for_drink` |
| Statistics | `core/stats.py`, `core/tasks.py` | Stats rows: a JSON document per drink and view | `build_for_id`, `rebuild_from_id` |
| Signals and tasks | `core/signal_handlers.py`, `core/tasks.py`, `notification`, `plugin` | the queue of jobs | queue statistics and event jobs, push to displays |
| Wall displays | `web/consumers.py`, `static/js/fullscreen-realtime.js` | what a display shows | tap state, pour in progress, pour ended, reload |
| Kegnet listener | `core/management/commands/run_kegnet_listener.py` | last broadcast per meter, cached meter-to-tap mapping | forward meter updates to the displays |
| Meters, toggles, sensors | `core/models.py` FlowMeter, FlowToggle, ThermoSensor | wiring of taps | `connect_meter`, `connect_toggle`, `connect_thermo`, `log_sensor_reading` |
| Accounts | `core/models.py`, `web/kbregistration`, `web/api/devicelink.py` | users, tokens, invitations, API keys, link codes in the cache | register, activate, link a device |
| Keg levels | `core/models.py` Keg | none | `percent_full`, `level_status`, `get_illustration` |
| Process runner | `util/runner.py` | running child processes | run, watch, abort |
| Maintenance | `backup`, `management/commands` | none | dump, restore, upgrade, regenerate events |
| Presentation | `web/kegweb`, `web/charts`, `proto`, `api/serializers.py` | none | render rows |

### How they interact

Everything meets in the database. A web request runs in one of several worker
processes; the methods of the models are `@transaction.atomic`, some requests are
several transactions (the forms that end a keg, create one and attach it). No
method locks a row (`select_for_update`) or lets the database add (`F()`): rows are
loaded, changed in memory and saved, some with all fields and some with
`update_fields`. At its end a method sends Django signals, still inside the
transaction; the handlers queue RQ jobs and push to the displays. The jobs run in another process,
a `rqworker default stats`, and read the database again.

One Redis database holds the job queues, the groups and queues of the displays' channel
layer, and the cache with the codes of devices that are being paired. Saving the site's settings
clears the cache, and with it all of these (`core/models.py`, `_sitesettings_post_save`).
The modules about each of them have this as a step.

The listener is a process of its own. It reads what the daemon of the flow meters publishes and
sends it to the displays; it writes nothing. The drinks themselves come by HTTP.

### What is hard here, and what must be true

- **Long histories.** Kegs are tapped, ended, reactivated, tapped again and deleted,
  taps are deleted, from two interfaces with different code. A tap's keg must be
  `on_tap` and nobody else's, and the log of a keg's life must be complete without
  repeating itself.
- **Two ways to the same number.** A session grows by `AddDrink` with a pour and is
  computed afresh by `Rebuild` after an edit; a keg's served volume is only ever
  adjusted by differences. Both must remain what the drinks add up to.
- **Time.** Pours are reported late and with their own time. Kegs, sessions and events
  are about times.
- **Deletion.** Cancelling a drink or deleting a keg must take along the events and
  sessions that are about nothing else, and only those.
- **Overlap.** Stale copies, lost updates, a session deleted under a pour, database
  deadlocks, an error in the middle of a transaction.
- **Delivery.** Jobs that run before the commit, out of order or never; messages to displays
  that are lost or overtake each other, from two processes and against two timers per card.
- **Entries without transactions.** A link code is read, written and deleted in separate
  calls to the cache by several threads, while it may expire and its device may give up.
- **Signals.** The process runner is told to stop in the midst of starting, polling or
  stopping its commands.

## 2. Modules

    TapRoom        taps, kegs, events of kegs           (abstract: no drinks, no time)
    PourLedger     drinks, sessions, volumes, events    (state and methods, no requests)
    Kegbot         = PourLedger + INSTANCE TapRoom      (the requests of the core)
    RequestRace    overlapping requests, statement by statement
    Statistics     the stats queue, its worker, the rows it derives from drinks
    PourCards      what a display shows of pours        (abstract)
    PourPanel      listener, socket and the script of the display; implements PourCards
    TapCards       the display's cards of taps: pushes, reloads, polls
    DeviceLink     pairing a device with the server
    Runner         the process runner and its signal handler
    KegLevels      picture and warning of a keg
    VolumeSums     the sum over a set of drinks, used by PourLedger, RequestRace, Statistics
    *_proofs       theorems about TapRoom, Kegbot, RequestRace, Statistics, DeviceLink, Runner;
                   Displays_proofs about PourPanel and TapCards; Volumes_proofs about
                   KegLevels, sums, least and greatest
    MC*            values for TLC

### TapRoom

One action per request, served alone. `taps` are the KegTap rows, `currentKeg[t]` is
`KegTap.current_keg`, `status[k]` is `Keg.status` with `"absent"` for a row that does
not exist, `kegEvents[k]` counts the keg's `keg_tapped` and `keg_ended` events.

The guards are the code's refusals: `EndKeg` is refused while a tap has the keg,
`AttachKeg` wants an idle tap, a keg on another tap trips over the
one-to-one constraint and the transaction is rolled back, `ReactivateKeg` wants a
finished keg. What is *not* a guard is as important: `attach_keg` takes a keg of any
status, `end_keg` one that was never tapped, `Keg.cancel` one that is on a tap, and
`DELETE /api/taps/<tap>` does not look at the keg at all. `BuildEventsForKeg` is
`build_events_for_keg`: an event of each kind once in a keg's life.

The forms that run several transactions are one action, their composition. A crash
between two of the transactions leaves the state that a shorter request leaves
(the keg ended and the tap idle: `EndTapKeg`; a keg created and not attached: `AddKeg`),
so every state after a crash is a reachable state of the model.

### PourLedger and Kegbot

PourLedger has the rows as functions: `drink[d]` with keg, user, volume, time and
session; `session[s]` with start, end and volume; `keg[k]` with volumes and times;
`events` is the set of SystemEvent rows that name a drink. Each method of the code is
an operator named after it. `AssignedSessions` is the query for the session that ends
last (`order_by("-end_time")[:1]`), with every choice among equals. The site's session
timeout is read whenever a session is written and may be edited in between, so each request
finds one of `Timeouts`. `PreSave` is the `pre_save` handler that widens the times of a keg that is not on tap. A keg's events
are built by pours too, which is why `Pour` calls `Room!SaveKegs`.

Kegbot puts the methods behind requests and conjoins the TapRoom part of the request.
`Pour(t, u, v, time)` charges the keg on tap `t`; its `time` is any time, before or
after the clock, since `record_drink` takes what the controller reports. `EditDrink`
is the admin's drink page. `Tick` is the clock.

Abstracted: volumes are natural numbers (the floating-point rounding of the code is not
modelled), ticks and meters, pictures, shouts, durations, beer types, notes. Signals
sent by the methods change none of this state and are left to Statistics and TapCards. A session
is named after the drink that opened it, which loses nothing as only equality matters.

### RequestRace

What happens when requests overlap. A request is a script of statements
(`Script`, one sequence per kind of request, in the order the code runs them): loads
copy rows into `loc[p]`, writes take the row (`owner`), `Commit` publishes values
computed from the copies. Kinds: `pour`, `cancel`, `adjust` (set_volume), `spill` (admin,
`update_fields`), `spill_api` (`POST .../spill`, which saves all fields), `end`,
`attach`, `settings` (TapForm saves the whole tap row, `current_keg` included).

The database is external and modelled by what Django's supported ones do at READ
COMMITTED: a statement sees committed rows, a written row stays locked until the end of
the transaction, a circle of waiting transactions is broken by rolling one back, foreign
keys with PROTECT and unique constraints raise. `Fails` lists the statements that raise.
`shared` is a history variable: the rows that two unfinished requests have worked on.

Not raced: the deletion of kegs, reassignment (the script of `adjust` without the keg),
and the forms of several transactions.

### Statistics

`drink` are the committed drinks, `open[p]` what request `p` will do to them when it
commits, `queue` the jobs (drink, incremental build or rebuild), `rows[v]` the Stats rows of
view `v` by their ids. A view is a combination of user, session and keg, each
or NULL, as in `StatsView`.

A request is three steps, since that is what the worker can tell apart: a pour gets its id
with the session row written (`Pour`), then writes the keg and queues its job
(`PourQueued`), then commits or is rolled back. A change (`Reassign`, `SetVolume`,
`CancelDrink`, `CancelKeg`) holds its rows by the time its job is queued, so it is `Change`
and its end. The signal handlers queue the job at once and not on commit, so `Work` may
take it before the commit; this is the main thing the module is about. `locks` are the
session and keg rows a request holds to its end. What the requests do to rows of kegs and
sessions is left to the other modules; a session is here what its drinks say.

`Work` is a whole job, which runs in a transaction of its own: `BuildForId` or
`RebuildFromId`, view by view, drink by drink, on the row of the prior drink, with
`BuildList` for prior drinks without a row. `CreateRow` raises where the table's
`unique_together` holds, that is for rows without NULL, and the lookup of the prior row
raises where there are two; a job that raises (`raised`) leaves no trace and is not tried again.
`Build` has the statistics that are folds of the drinks (counts, sums, the greatest pour and
the guest flag, volumes by drinker and session); `LargestSession` asks for the volume the
session has *now*.

`amiss` is a history variable: whether a job was ever taken before its request had
committed or was lost (`"missed build"`, `"missed rebuild"`) and whether two pours ever got ids in one
order and queued or committed in the other (`"disorder"`).

Assumed: one worker that takes the jobs in order (the compose file has one
`rqworker default stats`). Jobs are atomic against commits. In the code a job that overlaps
the commit of a cancellation can fail on the foreign key of the drink; what is left is then
as after a missed rebuild. `SaveSettings` empties the queue.

### PourCards and PourPanel

PourCards is the promise: a stack of cards, one per meter, oldest on top, each "Pouring" or
"Poured", a card taken away only once it says "Poured" or with the whole page. PourPanel is
the code that has to keep it.

`run_kegnet_listener.py` reads ticks (`reading`) and sends volumes. The database has a volume per
tick for each meter (`rate`, the inverse of `ticks_per_ml`, 0 for a meter that is not there); the listener
has what it has found there (`tapInfo`) and the meters it has sent something for less than 0.2 s ago
(`throttled`). A reading is dropped by the throttle, lost in sending, or sent. For the latter two the
listener looks the meter up: it asks the database and keeps the answer, that there is no such
meter included (`asked`), or it does not, because the entry is younger than 30 s or because the database
fails; then it uses the entry it has, or, with none, a volume of 0. A fresh entry and an old
one without a database have the same effect and are one case. `Calibrate` is `tap_calibrate` and the
pages of meters: the rate is another from one moment to the next, while cards are up, and nobody tells the
listener. `began` is a history: at how many ticks a card began, whether the listener's mapping was
right then and the meter has been left alone since (`sure`), and whether the latest reading met neither
database nor mapping (`blind`). `fullscreen-realtime.js` is
five dictionaries and two kinds of timers per meter, under the names they have there;
every handler ends with `renderPourPanel`, as in the script. A pour that is posted by HTTP
sends nothing but `pour_ended` (`PourRecorded`).

The two timers of a meter are set by the same lines, one for half a second and one for ten, so
the second fires after the first; `UpdateTimeout` has that as a guard. The carousel is the
vendored slick 1.3.7 as far as the script relies on it: an interval that stops while
a slide moves and is set again afterwards, unless paused.

A message is handled when it is sent. Readings come at any time anyhow, so a delay on the
way cannot be told from a later reading; an update that comes after the end of its pour,
sent by another process, is in the model. Meters are known by
their names; that the lookup may fall back to a port name and so take two meters for one
is left out, as is a meter that starts again from zero. Rates are natural numbers, where the code
has floats: `CalibrateTapForm` is a plain float field and would take a negative one.

### TapCards

`tapKeg` and `left` are what is committed of taps and volumes; `request[r]` is what a
request is at: it has written and not yet pushed, has built its message, has sent it and
not yet committed. That order is the code's: the receivers of `drink_recorded` run inside
the transaction, while a reload goes out after the commit of the change of kegs. A message goes to
`inbox` if the display's channel is in the group, and nowhere else. The page is
`"rendered"`, `"joined"` (in the group, initial state to come), `"live"` or `"closed"`.
`ChangeKeg` is announced by a reload; `LoseKeg` (a tap deleted by the API, a keg deleted)
and `EditVolume` (spills, cancelled and adjusted drinks) by nothing, as in the code.
`PollIsFresh` and `PollReloads` are the page's poll of events, which does nothing while the
socket is open.

Two history variables say what went wrong since the page was last up to date: `amiss` for
volumes and `unheard` for kegs. They are set at the very steps listed above and cleared by the
next good message or load; what the properties claim is that there is no other way.

### DeviceLink

One entry of the cache per code, threads that work on polls and confirmations call by call
(`get_status` is a read, a delete, two rows and an answer; `confirm_link` is a read and a
write), and the device, which polls, may stop waiting, and learns that it is linked, still
pending, or refused. Entries expire, the cache is cleared, threads die. `confirmed` and
`abandoned` are histories, the two sides of the account in `DevicesAreAccountedFor`.

### Runner

`run`, `watch_commands`, `abort` and the handler of `management/commands/common.py`. The handler
interrupts whatever the process does, itself included, so `activity` is a stack of frames.
Python's `Popen` takes a lock around `waitpid` that is not reentrant: `wait` in a handler
waits for ever if the frame it interrupted holds it. That is what the frames `"poll!"` and
`"wait!"` stand for. A signal may also come between `waitpid` and the returncode it is for: a command that is
`"gone"` has none yet, so `abort` takes it to be running, and `os.killpg` raises (`KillFails`). A command ends of itself at any time, and if it is told to.

### KegLevels

`percent_full`, `get_illustration` and `level_status` as operators on whole numbers, quotients
multiplied out, with the settings' thresholds as parameters. There is no state and nothing to run: the
module consists of definitions, with theorems in Volumes_proofs.

## 3. Runs

| Run | Bounds | Question |
|---|---|---|
| `taproom` | 3 taps, 3 kegs, symmetry, histories of any length | Do taps, statuses and the keg log stay consistent? **Yes** |
| `kegbot_kegs` | 1 tap, 2 kegs, guest and a user, 2 drinks at 2 times, a session timeout of 1 or 2 | Do events, sessions and times follow the drinks, and does Kegbot implement TapRoom? **Yes** |
| `kegbot_ledger` | 1 tap, 1 keg, 3 drinks, volumes 1 and 2, 3 times | Are the incremental totals the sums? **Yes** |
| `request_race` | 2 requests of any kinds, 2 taps, 2 kegs, an earlier drink or none | What can overlap spoil, and does every request end? Only what was shared; **yes** |
| `request_lost` | same | Is the served volume still the sum after overlap? **No**, finding 1 |
| `statistics` | 2 requests, 3 drinks out of 3 kinds (2 kegs in one session, 2 sessions of one keg), 1 change, 3 waiting jobs | Do statistics end up at what the drinks come to? **Yes**, if the jobs were in time |
| `pour_panel` | 2 meters, of 3 readings and of 1, the first calibrated to 0, 1 or 2, any faults | Do cards, timers and dictionaries agree, does every card go, is PourCards implemented? **Yes** |
| `pour_panel_carousel` | same | Does the carousel rest while something is poured? **No**, finding 2 |
| `tap_cards` | 2 taps, 2 kegs, 2 requests, 2 changes, 2 messages on their way, 2 faults | Does a display follow taps and volumes? **Yes**, unless a push was lost or never made |
| `tap_cards_missed` | same, 1 fault | Does a connected display that has seen the latest event show the right kegs? **No**, finding 3 |
| `device_link` | 1 code, 3 threads, 3 confirmations, 2 faults | Are there devices nobody asked for, and does polling end? No; **yes** |
| `runner` | 3 commands, 2 signals | Does the runner leave anything behind, and do all go down? No; **yes**, or it hangs |

**Why the bounds are enough to be interesting.** TapRoom's state is finite without any
bound. Its properties compare at most two taps and two kegs, a third of each is there
as the bystander. In `kegbot_kegs` two kegs can share one session, which is what deletion
and rebuilding are about; two drinks by two users distinguish "started" from "joined".
`kegbot_ledger` has three drinks so that the middle one can go, two volumes so that
differences and sums differ, and times on both sides of the timeout of 1, which stays as it is there: with two the run takes too long,
and the theorem is for any. The full volume
of 3 is crossed by two pours, so the low-volume event happens. `MaxDrinks`, `MaxTime` and
`MaxSpilled` are the only bounds in guards: they end histories, they do not forbid a
step that would be refused in the code.

In `request_race` two requests reach every pairwise race; both volumes are needed because
the loss of an update of equal volumes can cancel out; the requests choose any operation on
any tap, keg and drink. With two requests every circle of waiting has length two; longer ones
are not explored. In `statistics` drinks stand before and after a changed one, which is
where a build and a rebuild differ; the three kinds of pours share keg, session or user
pairwise; a queue of three holds two pours' jobs and a rebuild. `Pours`, `MaxDrinks`,
`MaxChanges` and `MaxQueue` are bounds; a second change makes the run too long for every day.

In `pour_panel` the only bound is `MaxReading`; timers, restarts, reloads, reconnections and calibrations
are unlimited. Three readings are a first one, one that adds to the card, and one that
begins another pour after the card has gone. Of the rates 0 is a meter that is not there, 1 and 2 are two
calibrations; the second meter has one rate and is there for the order of cards. In
`tap_cards` two changes are enough for one to overtake the other and for a keg to move from tap to
tap; two faults for a lost message and a lost connection. `MaxChanges`, `MaxInbox` (which
delays a sender) and `MaxFaults` are bounds. In `device_link` three threads are two polls of one code,
one of them given up, and a confirmation. Codes do not interact but through the threads. `MaxConfirmations` and `MaxFaults` are
bounds. In `runner` three commands put one before and one after the one that is worked on; the
second signal interrupts the handler of the first. The safety properties of these four modules, and
those of Statistics, are proved for all sizes anyhow.

**Symmetry** is used where kegs, taps and users are only compared for equality, and only in
runs without liveness.

**Deadlock** is checked except in four modules that really come to a stop: in RequestRace two
requests end and nothing makes new ones arrive, in Statistics the bounded pours and changes
end, in DeviceLink every device has its answer, and in Runner the process has ended.

**Fairness**, and why the code justifies it:

- RequestRace: each request's own steps. A worker process that serves a request is not
  suspended for ever, a lock wait ends when the holder commits, and the database finds
  deadlocks. Nothing makes requests arrive. `record_drink` writes the session before the keg
  and `cancel_drink` the keg before the session; `RequestsEnd` says that this strands no one.
- PourPanel: the timers of a browser fire and a slide that moves arrives. Nothing is assumed of meters,
  listener and sockets.
- TapCards: a request that has begun goes on; the page opens its socket again after it was
  closed (every 3 seconds, `fullscreen_realtime.html`), and handles what it receives; some
  sensor is read for ever, since the daemon logs temperatures whether or not anybody
  pours. Nobody need poll, pour or close anything.
- DeviceLink: threads do their steps and entries expire (weak fairness). A device polls on: strong
  fairness of `Poll`, since a thread must be free for it again and again, and the server hands
  requests to threads in the order they came. Nobody need confirm.
- Runner: the process does its next step, and a command that got SIGTERM ends. Commands need
  not die of themselves and signals need not come.

## 4. Properties

| Property | Says |
|---|---|
| `TappedKegIsOnTap` | the keg a tap points at is `on_tap`, through all histories |
| `KegOnOneTap` | no keg on two taps |
| `LifeIsLoggedOnce` | a keg on tap was announced, a finished one declared ended, each once, through reactivations; a deleted keg leaves no events |
| `OnTapKegOnlyEnds` | a keg on tap is only ended or deleted |
| `OnlyDeletedTapsLoseKegs` | a keg that stays on tap stays on its tap, unless that tap is deleted |
| `ServedIsSumOfDrinks` | the running total of a keg is the sum of its drinks |
| `SessionsMatchDrinks` | a session is what its drinks make it, grown or rebuilt |
| `EventsAgreeWithDrinks` | a drink has its event; events name present drinks, owners and sessions; a session starts at most once |
| `OfflineKegSpansItsDrinks` | an off-tap keg's times cover its drinks, backdated ones included |
| `DrinksComeFromTappedKegs` | kegs with drinks were announced; deleted kegs leave nothing |
| `ImplementsTapRoom` | Kegbot refines TapRoom |
| `UnsharedKegIsExact`, `UnsharedSessionsAreExact`, `UnsharedTapAgreesWithKeg` | overlap spoils only the rows two requests shared, so serialising requests per keg (and those about drinks per session) would be enough |
| `DrinksHaveSessions` | PROTECT and the transaction keep every drink's session, whatever overlaps |
| `RequestsEnd` | each request ends and gives its rows free |
| `StatsFollowDrinks` | with all jobs done and none lost, early or overtaken, every view's statistics are what its drinks come to by definition |
| `MissedPoursAreMadeUp` | a pour whose job came too early or was lost is counted once a later pour of the view is |
| `RowsAreUnique` | nothing is counted twice in a view, however builds are early or lost, unless a rebuild is, or pours swapped places between their ids and their jobs or commits |
| `LargestSessionExists` | statistics name no session that has gone, which the page of a drinker relies on |
| `CardsInStep` | the script's five dictionaries, its timers and the panel never drift apart |
| `CardShowsItsPour` | a card shows between nothing and what has flowed since it appeared, though readings are dropped all along the way and converted by a cached mapping; excepted are a mapping that was wrong when the card began, a meter calibrated while it is up, and a latest reading with neither database nor mapping |
| `ImplementsPourCards` | PourPanel refines PourCards |
| `CardsGo` | every card goes in the end |
| `CarouselKeepsTurning` | pausing and resuming never stops the carousel for good |
| `VolumesCatchUp` | a connected display that has handled its messages shows every keg's volume, unless a push was lost, taken back, never made, or overlapped |
| `KegsCatchUp` | ... and the kegs on tap, unless a change was not announced to it |
| `DisplayHeals` | once taps are left in peace, a display is connected for good and its volumes come right and stay right |
| `DevicesAreAccountedFor` | no more devices than confirmations and abandoned polls; none for an unconfirmed code; no key without its device |
| `RefusedMeansNoDevice` | a device that is told its code has expired has no row, unless it missed the answer |
| `PollingEnds` | every device stops polling, linked or refused |
| `NoneLeftBehind` | a runner that stops has seen the end of all it watched; at most one command, just being launched, survives |
| `AllGoDown` | when one command dies, or a signal comes, all that is watched goes down, unless `abort` fails at a command that was waited for and has no returncode yet |
| `SignalEndsRunner` | a signal ends the runner unless its handler hangs on a lock of its own process |

`StatsFollowDrinks` is conditional because the code's promise is: a rebuild that ran too early or was
lost is not repeated. `RowsAreUnique` needs both parts of its condition. Two pours of new sessions
on different kegs may queue in the other order; a job then makes up for a drink whose own
job is still to come, and most views have no unique constraint. And a rebuild may count a pour ahead of the
pour's own job. If the pour is then given to another drinker, its job finds no row in the new
drinker's views, so that the unique constraint does not stop it, and adds a second row in the views
without a drinker. The rebuild of the reassignment clears that away, unless it is lost.
The conditions of
`VolumesCatchUp` and `KegsCatchUp` name every way the code has to leave a display behind, so their
content is that there is no other: a display may join, be sent its first state and handle pushes
in any order around open transactions.

Each has a mutant: a bug in one definition (a dropped guard, a missing rebuild, a wrong
difference, a timer left running) which TLC finds to break it. Mutants stand right before
the definition they replace. TapCards and DeviceLink have a `TypeOK` as well, which is not
among the runs' properties; DeviceLink's is proved.

## 5. Findings

1. Overlapping requests on a keg lose updates of `served_volume_ml`; the API's spill saves
   all fields of a stale keg (`request_lost`).
2. The script of the display says that it pauses the carousel while anything is poured. It
   never does: the vendored slick 1.3.7 has no `slickPause`; `$.fn.slick` takes the word for options,
   makes another object of an element that is set up already, and the first one turns on
   (`pour_panel_carousel`).
3. A display misses changes of kegs. The page reloads for new events only while its socket is
   down since "it handles updates otherwise", but reloads are sent for attached and ended kegs only, and only
   to displays that are in the group at that moment. A keg that is deleted or goes with its tap
   leaves its card, and a change between the rendering of the page and its joining the
   group is never made up for (`tap_cards_missed`).

Observed while modelling, in the models as they are in the code, and not asked by a run of
their own:

- `DELETE /api/taps/<tap>` deletes the tap and leaves its keg `on_tap`, on no tap. The admin page ends
  the keg first.
- `keg_tapped` is created once in a keg's life: a reactivated keg that is tapped again is not
  announced. `attach_keg` sets `start_time` anew all the same.
- A session's drinks need not be within the session timeout of each other: a backdated pour
  joins the session that ends last, and cancelling a middle drink leaves a gap.
- The job that recomputes statistics is queued before its change commits. A quick worker
  recomputes the old state and nothing repeats it. `largest_session` keeps a volume from
  an earlier drink's row after a later cancellation.
- Saving the settings drops waiting jobs and link codes and puts connected displays out of
  their group; their sockets stay open and silent until they close for another reason. A display
  also leaves the group a day after it joined (`group_expiry` of channels_redis, which no line of the
  repository changes), with the same effect.
- Without a database at its first reading of a meter, the listener sends a volume of 0 under the
  meter's own name. It does so as well for up to 30 s after a meter it did not find was added.
- The listener may take a card's first reading and its latest with different mappings, if the meter is
  calibrated, added or removed: the card then shows `r2 * k2 - r1 * k1`, which may be more than has flowed, or
  negative, until it goes. A latest volume of 0, from a listener restarted
  without a database, makes the card negative until the next reading.
- `docs/realtime-pour-overlay.md` (lines 93-95 and 204) has `pour_ended` remove a card at once. The script
  marks it "Poured" and leaves it up for the rest of its ten seconds, as its own comment says; so does the model.
- The throttle may drop the last reading of a pour. A pour reported by HTTP alone
  shows no card, although `docs/realtime-pour-overlay.md` reads as if it did.
- `pour_ended` for a meter without a card leaves an entry in `pourSettled`, which the next update
  overwrites.
- An answer that a device does not wait for, or that dies with its thread, leaves a Device
  and an ApiKey nobody uses; two overlapping polls may make two.
- The handler of the runner hangs if it interrupts `poll` or `wait` on a command that lives:
  the lock in Python's `Popen` is not reentrant. A command that is launched and not yet recorded
  survives a signal, and a failure to fork leaves the earlier commands running. A signal between
  `waitpid` and the setting of the returncode makes `os.killpg` raise ProcessLookupError. If the
  lowest frame is a `poll`, `Popen` takes the error for its own and the runner goes on, with the commands before that one
  told to end; else the runner ends with an exception, and commands it has not told run on. The docstring promises one process
  group; each command calls `setsid`.

## 6. Proofs

For all values of the constants, from the modules' ASSUMEs alone.

**TapRoom** (`TapRoom_proofs`). `RoomInv`, the conjunction of `RoomTypeOK`,
`TappedKegIsOnTap`, `KegOnOneTap` and `LifeIsLoggedOnce`, is inductive. None of the
three is inductive alone: that ending a tap's keg keeps other taps right needs
`KegOnOneTap`; that `EndKeg` touches no tapped keg needs the guard and the
types; that an announced keg stays announced needs the events to be those of its status.
The theorems are `RoomInvariance` and its consequences, and two action properties:
`OnTapKegsOnlyEnd`, and `KegsStayConnected`, for which every step that empties a tap
must be shown to take the keg off tap, delete it, or delete the tap.

**Kegbot implements TapRoom** (`Kegbot_proofs`). Every action conjoins a TapRoom action
or leaves its variables, except `Pour`, which rebuilds the keg's events. It is a stutter
because of `TappedKegIsOnTap` and `LifeIsLoggedOnce`: the keg is on tap, hence announced,
hence `BuildEventsForKeg` changes nothing. So first the invariant is proved for Kegbot
(`KegbotKeepsRoomInv`), then the refinement (`KegbotImplementsTapRoom`).

**Which rows there are and whom they name** (`Kegbot_proofs`). `KegbotInv` adds to
`RoomInv` that drinks are numbered up to `lastDrink`, that drinks and events have their
types, that sessions are named after drinks, and the two properties below.
`KegbotInvariance` gives `EventsAlwaysAgree` and
`DrinksAlwaysComeFromTappedKegs`. The hard cases are `RecordDrink` (the new key is
fresh, so no event can name it yet), `Reassign` (all of a drink's events change hands at
once) and `EraseKeg` (events go with their drinks *and* with their keg).

**The times of kegs** (`Kegbot_proofs`). `TimesInv` is `OfflineKegSpansItsDrinks` with the kegs'
start and end as numbers; together with `KegbotInv` it is inductive. Least and greatest are choices
over sets, so their existence comes from the well-foundedness of `<` (`MinFacts`, `MaxFacts`);
from them `PreSaveSpans`: a row saved through `_keg_pre_save` covers its drinks. Every request leaves a
keg's times and its drinks' alone, puts the keg on a tap, or saves it through `PreSave`; that no
pour reaches an off-tap keg is TapRoom's invariant again, and the new keg of `AddKeg` has no drinks
by `DrinksComeFromTappedKegs`.

**Sums** (`Volumes_proofs`). `VolumeOf` is the fold of the community modules, which is defined by
recursion over subsets with a choice of the next element. Instead of an induction theorem, which the
provers cannot instantiate, the lemmas take a least counterexample: among the subsets of a finite
set for which something fails there is one whose smaller subsets are all right (`LeastSubset`,
from the well-foundedness of the strict subset order). That gives in turn that the recursive
function exists and is the same over every set it is defined on, that the sum is a natural number
(`VolumeIsNat`) and, the point of it all, that *any* drink may be taken out first (`VolumeOfOne`), not
only the one the fold happens to choose. So a drink more, less or with another volume changes a sum by that much.

**Totals** (`Kegbot_proofs`). `TotalsInv` is `ServedIsSumOfDrinks` and `SessionsMatchDrinks` with
the types of kegs, inductive together with `KegbotInv`. `RecordDrink` needs
the drink's id to be fresh, or the sum would not grow by the pour; cancelling needs the drink
to be counted, so that the difference stays a natural number; and a session grown by `AddDrink` must have the
least and greatest time as well, for pours before its start and after its end. As the timeout may change
between two pours, the end is no function of the drinks: it lies one of the timeouts after one of them and no sooner than
some timeout after each (`MadeOf`), which `AddDrink` keeps and `Rebuild` makes. What is rebuilt is right by
definition, so the work there is to show that the sessions not rebuilt have kept their drinks. The
type invariant follows, since volumes are then sums. The results are
`ServedVolumesAreSums`, `SessionsAlwaysMatch` and `KegbotTypeCorrect`.

**Overlapping requests** (`RequestRace_proofs`). Three invariants over `Shapes`, which
says what a running request holds and what its script looks like. `DrinkInv` needs no lock: a pour or an
adjustment always saves its session again (`LeavesADrink`), and a cancellation's commit fails while other
drinks name the session. `TapInv` needs `OneClaims`, that a row worked on by two requests is
`shared`; then the copies and the tap's keg held by a request are current for unshared rows (`Copies`,
`SettingsCurrent`), and a request past its one-to-one check is alone with its keg (`NoOtherTap`), without
which the end of a keg would leave it on a second tap. `TotalsInv` says the same of what
totals are computed from: the copy of an unshared keg has the row's served volume (`HoldsRow`), the drink of
a cancellation or adjustment is there with the keg, session and volume it was loaded with
(`HoldsDrink`), and the session's new volume is the sum over its other drinks plus the new
one (`HoldsSum`). Two facts beyond that came up in the proof: a drink that is there belongs to a pour that is over
(`Poured`), or a pour's commit might overwrite one; and requests about the same drink agree on its keg and session even
if the drink is shared (`EditsAgree`), or a cancellation and an adjustment of one drink could touch two kegs and only
one of them would count as shared. A commit then changes each total by what it changes the sum
(`KegsAreExact`, `SessionsAreExact`), and `RaceTypeCorrect` comes with it. TLC also checked the invariant with
three requests on one tap and two kegs before it was proved.

**The account of devices** (`DeviceLink_proofs`). A thread that has read "linked", or whose
device has stopped waiting for a poll, owes its code a device. The invariant is that
devices made, devices owed, and one more while the code is linked and no thread waited for has read
so, are together no more than confirmations and abandoned polls; likewise that keys made and
owed are no more than devices. The one more (`Spare`) is needed for a poll to read "linked", and must
disappear just then, or the poll's debt would be counted twice. `OneWaits` says that a device waits for one poll at a time, so that
only one thread can use it up. `Unconfirmed` and `Heard` give the case of no
confirmation and `NoDeviceForTheRefused`. Debts are cardinalities of sets of threads; a lemma says
how they change when one thread moves.

**The runner's stack** (`Runner_proofs`). `RunnerInv` says of every frame that it fits what is
watched, and of the lowest, the program itself, which commands it has launched and recorded.
Those above are handlers, which only kill and wait, so they cannot disturb that; and
a frame that waits has seen the end of all it has passed, which survives interruption because nothing
is watched anew above it. `NothingIsLeftBehind` follows when the topmost frame stops.

**The panel implements the stack of cards** (`Displays_proofs`). `PanelInv` has three parts.
`Dictionaries` says that the script's dictionaries have the same meters, that the stack lists each
once and that timers run for cards only; each of the three handlers is shown to keep it by
itself. `Drawn` says that the page shows the dictionaries, because every handler ends by
rendering. `Books` says of a card that is `sure` that the listener's mapping, if it has one, is the database's, and
that its baseline and, unless the latest reading was `blind`, its volume are the ticks of a reading taken when the card
appeared or since, times the rate (`SureBooks`). Throttled readings, restarts and lookups keep that, and calibration
takes the card out of the claim (`CalibrateKeeps`); arithmetic of differences (`DifferenceOfTicks`)
gives the bounds. `CardsStayInStep` and `CardsShowTheirPours`
follow, and `PanelImplementsPourCards`: with `Drawn` the refinement mapping is the page itself, and
each action is a step of PourCards or a stutter. Taking a meter off the stack
is a choice in the community modules' `RemoveFirst`; lemmas say what it does to a
sequence without repetition.

**Cards catch up** (`Displays_proofs`). `KegsInv` is nearly the property: a change the page has
not made is with a request that will announce it, or a reload is on its way, or it is `unheard`.
`VolumesInv` spells out what `~amiss` stands for: one request at a time, a connected page in its
group, a message built is what its request sees, and the newest message, or the page if none is on
its way, shows each volume as it will be once the pour that was pushed commits. That
last part is the link between a push from inside a transaction and the volume committed
after it: `CommitPour` does not change it, and each message, once sent, establishes it anew. `KegsDoCatchUp` and
`VolumesDoCatchUp` are its cases without requests and messages.

**Pictures and warnings** (`Volumes_proofs`). Pouring never makes a keg look fuller
(`PictureFollowsVolume`) or its warning milder, for thresholds in any order
(`WarningFollowsVolume`); a keg with nothing left is "empty" (`NothingLeftIsEmpty`); and no keg is shown
as empty without a warning if the low threshold is at least 10 percent (`EmptyPictureIsWarned`).

**Statistics** (`Statistics_proofs`). The properties speak of the end, when no job waits, so the invariant
has to say what holds on the way there. A rebuild from drink `d` will do away with whatever is
wrong from `d` on. So `Clean` are the drinks before all rebuilds that wait, and in every state the rows of
clean drinks are right (`RowsAreGood`): in the order of the drinks, none missing before another,
each with what the drinks up to it come to by definition, and with a largest session that
has drinks. `StatisticsInv` consists of

- `Types`, `Shape` (what a request may have open) and `Apart` (two requests share no session or keg);
- `Order`: without `"disorder"` pours are queued and committed in the order of their ids, so that a build
  never makes a row before an earlier one;
- `Rebuilds`, without lost or early rebuilds: `ChangesHaveJobs`, `RowsAreGood`, and
  `AllOrNone`, that a drink whose own build still waits has rows in all its views or in none. The
  last is why nothing is counted twice: a drink already counted, by a rebuild ahead of its job, has
  its row in the view that the unique constraint guards, and the whole job raises;
- `Builds`, without lost or early jobs of any kind: an open pour has its build waiting
  (`PoursHaveJobs`), and so has a row that is missing (`MissingHaveJobs`).

A commit keeps `RowsAreGood` because its own rebuild still waits, from no later drink than those
it changes, and so takes them out of `Clean`; a rollback leaves a rebuild of what is right
anyhow. A build is good because one more drink does to the definition
what `StatsBuilder` does to the previous row (`BuildAddsADrink`): another count, sum, greatest pour with
the earliest of equals, and entry of a dictionary. What a job makes is a fold over the drinks of its
list, and the drinks of a rebuild are a fold of those; the least counterexample among subsets
serves for them as for sums. When nothing waits all drinks are clean, which gives
`StatisticsAreUnique`, `MissedPoursMadeUp`, `LargestSessionHasDrinks` and, with `Builds`, `StatisticsFollowDrinks`.
TLC checked the invariant on 200,466 states (2 requests, 3 drinks, 1 change) before it was proved. The attempt
corrected the model's claims: `RowsAreUnique` was first stated without its second condition,
and with two changes TLC finds the history told in section 4.

**Model-checked only.** All liveness (`RequestsEnd`, `CardsGo`, `CarouselKeepsTurning`, `DisplayHeals`,
`PollingEnds`, `AllGoDown`, `SignalEndsRunner`): it needs fairness and ENABLED, which the prover cannot
handle. Every safety invariant and action property of the runs that pass is proved.

## 7. State of the plan

Done: the core (TapRoom, PourLedger, Kegbot), its overlapping requests, statistics, displays and
listener, device linking, the runner, keg levels, and the proofs above.

Left, in the order of worth:

1. RequestRace: deletion of kegs and the forms of several transactions.
2. Wiring (meters, toggles, sensors) and registration, both single rows without protocol.

## 8. Not modelled

- Backup, restore, erase and upgrade (I/O), serialisation, rendering, charts and the setup wizard (no
  state of their own), mail and webhook delivery, pictures, the beer database, units and
  colours.
- Meters, toggles and sensors: each connection is one row that the database's constraints
  guard. Registration, invitations and tokens: single rows; two registrations may use one
  invitation, which no line of the repository rules out.
- `kb_regen_events` deletes and recreates all events from the drinks; it is a maintenance command
  run by hand, and the event properties assume it is not.
- `KegbotCache` is used by nothing but its test.
- Vendored JavaScript (Highcharts, Bootstrap, Fancybox, jQuery plugins), which is nearly all
  the JavaScript in the repository: 38,000 lines, of which its own scripts are some 360. The
  server's logic is in Python, and the modules map to that. Of the vendored code only the lines of slick
  that the display's script relies on are modelled. Of the own scripts `fullscreen-realtime.js` is modelled
  but for its drawing and
  `jquery.autounits.js`, a display of units, is not.
